---- MODULE Spec2Model ----
(***************************************************************************)
(* Fibank chatbot: the turn orchestrator (FibankChatbot.generate_response),*)
(* its language detector, intent classifier, keyword inquiry handlers, the *)
(* generation fallback chain, the Gemini wrapper and the semantic          *)
(* retriever, modelled from src/core/chatbot.py, src/services/*.py and     *)
(* src/utils/*.py.                                                         *)
(*                                                                         *)
(* Text is modelled at word level: a Python str is a sequence of tokens,   *)
(* each a word or the whitespace token SP; str.lower() maps                *)
(* each word through Lower; `k in s` and a pattern search are the search   *)
(* of a phrase (a word sequence) as a contiguous run of the tokens.        *)
(* A Python value passed as user_input is [type, toks]: None, a str, or    *)
(* another (truthy) object.  An output string is the sequence of its       *)
(* segments, so that `response += footer` is Append.                       *)
(***************************************************************************)
EXTENDS Integers, Sequences, FiniteSets, TLC

\* ------------------------------------------------------------------ text

SP == " "

NoneValue == [type |-> "none", toks |-> << >>]
OtherObject == [type |-> "obj", toks |-> << >>]
Str(ws) == [type |-> "str", toks |-> ws]

\* str.lower() on one word; the vocabulary is lower case except these
Lower(w) ==
    CASE w = "VISA" -> "visa"
      [] w = "Gold" -> "gold"
      [] w = "Mortgage" -> "mortgage"
      [] w = "EXIT" -> "exit"
      [] OTHER -> w

lower(toks) == [i \in 1..Len(toks) |-> Lower(toks[i])]

RECURSIVE lstrip(_)
lstrip(toks) ==
    IF toks # << >> /\ Head(toks) = SP THEN lstrip(Tail(toks)) ELSE toks

RECURSIVE rstrip(_)
rstrip(toks) ==
    IF toks # << >> /\ toks[Len(toks)] = SP
    THEN rstrip(SubSeq(toks, 1, Len(toks) - 1))
    ELSE toks

\* str.strip()
strip(toks) == rstrip(lstrip(toks))

\* the words of a text between its whitespace
Words(toks) == SelectSeq(toks, LAMBDA t : t # SP)

\* `phrase in text` / pattern.search(text) for a literal phrase: the phrase's
\* words occur as a contiguous run of the text's words
Contains(toks, phrase) ==
    LET ws == Words(toks)
    IN  \E i \in 1..(Len(ws) - Len(phrase) + 1) :
            SubSeq(ws, i, i + Len(phrase) - 1) = phrase

\* Python truthiness of the argument: `not user_input`
Falsy(v) == v.type = "none" \/ (v.type = "str" /\ v.toks = << >>)

\* --------------------------------------------------------- utils/i18n.py

\* words holding at least one letter of the set 'абвгдежзийклмнопрстуфхцчшщъьюя'
\* (Cyrillic words are written transliterated: bg_ marks a word spelled with
\* letters of that set, cyr_ a word of other Cyrillic letters such as the
\* Russian yery, which the set does not hold)
BulgarianLetterWords ==
    {"bg_karta", "bg_kredit", "bg_ipoteka", "bg_zdravey", "bg_ovardraft", "bg_viza", "bg_gold"}

\* the banking terms of bulgarian_words
bulgarian_words ==
    {"bg_zaem", "bg_kredit", "bg_karta", "bg_lihva", "bg_banka", "bg_pari", "bg_plashtane",
     "bg_ipoteka", "bg_potrebitelski", "bg_ovardraft", "bg_filial", "bg_klan",
     "bg_dokumenti", "bg_zayavka", "bg_protses", "bg_onlayn", "bg_pomosht", "bg_informatsiya"}

\* what langdetect.detect(text) may answer: a language code, or
\* LangDetectException ("fail")
LangDetectOutcomes == {"en", "bg", "ru", "fail"}

\* detect_language(text), ld the outcome of the statistical detector
detect_language(toks, ld) ==
    IF toks = << >> \/ strip(toks) = << >> THEN "en"
    ELSE IF \E i \in 1..Len(toks) : Lower(toks[i]) \in BulgarianLetterWords THEN "bg"
    ELSE IF \E w \in bulgarian_words : Contains(lower(toks), <<w>>) THEN "bg"
    ELSE IF ld = "fail" THEN "en"
    ELSE IF ld \in {"en", "bg"} THEN ld
    ELSE "en"

\* ------------------------------------------------- intent classification

\* ConfigLoader._get_default_intent_patterns: the categories in dictionary
\* order, each with its patterns in list order; a pattern \b(a|b|c)\b is the
\* set of its alternatives, each a phrase
DefaultIntentPatterns ==
    << [intent |-> "credit_cards",
        patterns |-> << {<<"credit", "card">>, <<"bg_kreditna", "bg_karta">>, <<"bg_karta">>, <<"bg_karti">>},
                        {<<"visa">>, <<"bg_viza">>, <<"viza">>, <<"bg_visa">>, <<"mastercard">>,
                         <<"bg_masterkard">>, <<"bg_master", "bg_kard">>, <<"bg_masterkart">>},
                        {<<"bg_platina">>, <<"bg_zlatna">>, <<"bg_klasik">>, <<"standard">>,
                         <<"bg_standartna">>, <<"gold">>, <<"bg_gold">>, <<"platinum">>, <<"bg_platinum">>},
                        {<<"bg_plashtane">>, <<"bg_plashtaniya">>, <<"bg_pokupki">>, <<"first", "lady">>,
                         <<"bg_farst", "bg_leydi">>, <<"bg_za", "bg_dami">>} >>],
       [intent |-> "loans",
        patterns |-> << {<<"loan">>, <<"bg_zaem">>, <<"bg_kredit">>, <<"bg_ipoteka">>, <<"bg_zhilishten">>},
                        {<<"consumer">>, <<"bg_potrebitelski">>, <<"overdraft">>, <<"bg_ovardraft">>},
                        {<<"bg_finansirane">>, <<"bg_pari">>, <<"bg_suma">>} >>],
       [intent |-> "rates",
        patterns |-> << {<<"rate">>, <<"bg_lihva">>, <<"bg_lihven">>, <<"bg_protsent">>},
                        {<<"price">>, <<"bg_tsena">>, <<"bg_taksa">>, <<"bg_komisionna">>},
                        {<<"how", "much">>, <<"bg_kolko", "bg_struva">>, <<"bg_tsenata">>} >>],
       [intent |-> "application",
        patterns |-> << {<<"apply">>, <<"bg_kandidatstvam">>, <<"bg_zayavka">>, <<"bg_protses">>},
                        {<<"how", "to">>, <<"bg_kak", "bg_da">>, <<"bg_dokumenti">>, <<"bg_iziskvaniya">>},
                        {<<"online">>, <<"bg_onlayn">>, <<"bg_klon">>, <<"bg_filial">>} >>],
       [intent |-> "help",
        patterns |-> << {<<"help">>, <<"bg_pomosht">>, <<"bg_pomognete">>, <<"bg_informatsiya">>},
                        {<<"what", "can", "you">>, <<"bg_kakvo", "bg_mozhesh">>, <<"bg_vazmozhnosti">>},
                        {<<"guide">>, <<"bg_rakovodstvo">>, <<"bg_instruktsii">>} >>] >>

\* pattern.search(text_lower)
PatternSearch(pattern, toks) == \E phrase \in pattern : Contains(toks, phrase)

\* confidences are kept in tenths: 8 is the fixed 0.8 of a pattern match
MatchScore == 8

\* the loop body of find_intent for the categories from index i on
RECURSIVE find_intent_from(_, _, _, _)
find_intent_from(patterns, i, text_lower, best) ==
    IF i > Len(patterns) THEN best
    ELSE LET matched == \E j \in 1..Len(patterns[i].patterns) :
                            PatternSearch(patterns[i].patterns[j], text_lower)
             next == IF matched /\ MatchScore > best.confidence
                     THEN [intent |-> patterns[i].intent, confidence |-> MatchScore]
                     ELSE best
         IN  find_intent_from(patterns, i + 1, text_lower, next)

\* mutation: a later matching category replaces an earlier one
C18_mutant_last_match(patterns, toks) ==
    IF \E i \in 1..Len(patterns) : \E j \in 1..Len(patterns[i].patterns) :
           PatternSearch(patterns[i].patterns[j], lower(toks))
    THEN [intent |-> patterns[CHOOSE i \in 1..Len(patterns) :
                         /\ \E j \in 1..Len(patterns[i].patterns) :
                                PatternSearch(patterns[i].patterns[j], lower(toks))
                         /\ \A k \in (i + 1)..Len(patterns) :
                                \A j \in 1..Len(patterns[k].patterns) :
                                    ~PatternSearch(patterns[k].patterns[j], lower(toks))].intent,
          confidence |-> MatchScore]
    ELSE [intent |-> "general", confidence |-> 0]

\* FibankChatbot.find_intent
find_intent(patterns, toks) ==
    find_intent_from(patterns, 1, lower(toks), [intent |-> "general", confidence |-> 0])

\* ---------------------------------------------------------- product data

\* The value of a product's "product information" field as the code observes
\* it: its JSON type (a string, null, or a number), and for a string whether
\* it is empty, whether it is longer than 200 characters, its lines (split
\* on newline: "text", "empty" or "bullet", a line starting with '-') and how
\* many of its ';'-separated parts name a limit, an annual fee or cashback
Info(type, empty, long, lines, keyparts) ==
    [type |-> type, empty |-> empty, long |-> long, lines |-> lines, keyparts |-> keyparts]
TextInfo(long, lines, keyparts) == Info("str", FALSE, long, lines, keyparts)
EmptyInfo == Info("str", TRUE, FALSE, << >>, 0)
NullInfo == Info("none", TRUE, FALSE, << >>, 0)
NumberInfo == Info("num", FALSE, FALSE, << >>, 0)

\* Python truthiness of such a value
Truthy(info) == info.type = "num" \/ (info.type = "str" /\ ~info.empty)

\* data/credit_cards.json as loaded: brand -> card name -> attributes, in
\* document order
CreditCards ==
    << [brand |-> "Visa",
        cards |-> << [name |-> "Visa Gold",
                      info |-> TextInfo(TRUE, <<"text", "bullet">>, 2), link |-> TRUE] >>],
       [brand |-> "Mastercard",
        cards |-> << [name |-> "Mastercard Standard",
                      info |-> NullInfo, link |-> FALSE] >>] >>

\* data/credits.json as loaded: category -> credit name -> attributes
Credits ==
    << [category |-> "cat_consumer",
        credits |-> << [name |-> "Consumer Loan",
                        info |-> NumberInfo, link |-> TRUE] >>],
       [category |-> "cat_overdraft", credits |-> << >>] >>

\* card_name.replace('"', '') ... : the name without its quote characters
NormalizeName(name) ==
    CASE name = "\"Smart\" Loan" -> "Smart Loan"
      [] OTHER -> name

\* mutation: an entry already under the key is kept
C19_mutant_first_wins(d, key, product) ==
    IF \E i \in 1..Len(d) : d[i].key = key
    THEN d
    ELSE Append(d, [key |-> key, product |-> product])

\* combined[key] = product on an insertion-ordered dict
DictPut(d, key, product) ==
    IF \E i \in 1..Len(d) : d[i].key = key
    THEN [i \in 1..Len(d) |-> IF d[i].key = key THEN [key |-> key, product |-> product] ELSE d[i]]
    ELSE Append(d, [key |-> key, product |-> product])

RECURSIVE PutAll(_, _, _, _)
PutAll(d, items, type, category) ==
    IF items = << >> THEN d
    ELSE PutAll(DictPut(d, NormalizeName(Head(items).name),
                        [name |-> Head(items).name, type |-> type, category |-> category,
                         description |-> Head(items).info]),
                Tail(items), type, category)

RECURSIVE CombineCards(_, _)
CombineCards(d, cards) ==
    IF cards = << >> THEN d
    ELSE CombineCards(PutAll(d, Head(cards).cards, "credit_card", Head(cards).brand), Tail(cards))

RECURSIVE CombineCredits(_, _)
CombineCredits(d, credits) ==
    IF credits = << >> THEN d
    ELSE CombineCredits(PutAll(d, Head(credits).credits, "credit", Head(credits).category),
                        Tail(credits))

\* FibankChatbot._combine_products
combine_products(credit_cards, credits) ==
    CombineCredits(CombineCards(<< >>, credit_cards), credits)

\* the knowledge base _setup_knowledge_base builds
KnowledgeBase ==
    [products |-> combine_products(CreditCards, Credits),
     credit_cards |-> CreditCards,
     credits |-> Credits]

\* ------------------------------------------------- services/gemini_service.py

\* max_retries of GeminiService.generate_response
MaxRetries == 2

\* what one self.model.generate_content(prompt) may do: raise; answer with no
\* response or an empty text ("empty"); answer a whitespace-only text
\* ("blank"); answer a text with visible characters ("text")
GenOutcomes == {"raise", "empty", "blank", "text"}

GenScripts == [1..(MaxRetries + 1) -> GenOutcomes]

\* a returned Python value: None, or a str given by its segments
PyNone == [none |-> TRUE, text |-> << >>]
PyStr(segs) == [none |-> FALSE, text |-> segs]
PyTruthy(v) == ~v.none /\ v.text # << >>

Seg(k, l, a) == [k |-> k, l |-> l, a |-> a]

\* a run of whitespace in a generated text
WS == Seg("whitespace", "", "")

\* response.text of the generator's answer at attempt number n
AiText(n) == Seg("ai_text", "", ToString(n))

response_text(out, n) ==
    CASE out = "text" -> <<WS, AiText(n), WS>>
      [] out = "blank" -> <<WS>>
      [] OTHER -> << >>

\* str.strip() on a generated text
RECURSIVE text_strip(_)
text_strip(segs) ==
    IF segs # << >> /\ Head(segs) = WS THEN text_strip(Tail(segs))
    ELSE IF segs # << >> /\ segs[Len(segs)] = WS
    THEN text_strip(SubSeq(segs, 1, Len(segs) - 1))
    ELSE segs

\* the for loop of GeminiService.generate_response from attempt `attempt` on:
\* the value returned and the number of generate_content calls made
RECURSIVE gemini_attempts(_, _, _)
gemini_attempts(script, attempt, max_retries) ==
    IF attempt > max_retries THEN [value |-> PyNone, calls |-> attempt]
    ELSE IF script[attempt + 1] = "raise"
    THEN IF attempt = max_retries
         THEN [value |-> PyNone, calls |-> attempt + 1]
         ELSE gemini_attempts(script, attempt + 1, max_retries)
    ELSE IF response_text(script[attempt + 1], attempt + 1) # << >>
    THEN [value |-> PyStr(text_strip(response_text(script[attempt + 1], attempt + 1))),
          calls |-> attempt + 1]
    ELSE gemini_attempts(script, attempt + 1, max_retries)

\* mutation: the wrapper makes a single attempt and never retries
C7_mutant_single_attempt(gemini, script, max_retries) ==
    IF ~gemini.is_available \/ ~gemini.model
    THEN [value |-> PyNone, calls |-> 0]
    ELSE gemini_attempts(script, 0, 0)

\* GeminiService.generate_response(prompt, max_retries)
gemini_generate_response(gemini, script, max_retries) ==
    IF ~gemini.is_available \/ ~gemini.model
    THEN [value |-> PyNone, calls |-> 0]
    ELSE gemini_attempts(script, 0, max_retries)

\* --------------------------------------------- services/semantic_service.py

\* similarities are kept in tenths: threshold 0.3 is 3
DefaultThreshold == 3
DefaultTopK == 3
FallbackTopK == 5

\* what the embedding model may do during one find_similar_products: work,
\* fail to load, fail to encode the corpus, or fail to encode the query
EncOutcomes == {"ok", "load_fail", "corpus_fail", "query_fail"}

\* mutation: the texts already prepared do not stop a second preparation
C28_mutant_append_again(sem) ==
    IF ~sem.kb_set \/ sem.knowledge_base.products = << >> THEN sem
    ELSE [sem EXCEPT
             !.product_texts = sem.product_texts
                 \o [i \in 1..Len(sem.knowledge_base.products) |->
                        sem.knowledge_base.products[i].key],
             !.product_keys = sem.product_keys
                 \o [i \in 1..Len(sem.knowledge_base.products) |->
                        sem.knowledge_base.products[i].key]]

\* SemanticService._prepare_product_texts
prepare_product_texts(sem) ==
    IF sem.product_texts # << >> \/ ~sem.kb_set THEN sem
    ELSE IF sem.knowledge_base.products = << >> THEN sem
    ELSE LET keys == [i \in 1..Len(sem.knowledge_base.products) |->
                         sem.knowledge_base.products[i].key]
         IN  [sem EXCEPT !.product_texts = sem.product_texts \o keys,
                         !.product_keys = sem.product_keys \o keys]

\* the `model` property: the service after the access, and whether it raised
load_model(sem, enc) ==
    IF sem.model THEN [sem |-> sem, raised |-> FALSE]
    ELSE IF enc = "load_fail" THEN [sem |-> sem, raised |-> TRUE]
    ELSE [sem |-> [sem EXCEPT !.model = TRUE], raised |-> FALSE]

\* the try block of build_embeddings, m the outcome of the model access:
\* self._embeddings = self.model.encode(self._product_texts)
encode_corpus(m, enc) ==
    IF m.raised THEN [sem |-> m.sem, embeddings |-> << >>, encodings |-> 0]
    ELSE IF enc = "corpus_fail" THEN [sem |-> m.sem, embeddings |-> << >>, encodings |-> 1]
    ELSE [sem |-> [m.sem EXCEPT !.embeddings = [built |-> TRUE, vecs |-> m.sem.product_texts]],
          embeddings |-> m.sem.product_texts, encodings |-> 1]

\* build_embeddings after _prepare_product_texts left the service as s1
build_prepared(s1, enc) ==
    IF s1.product_texts = << >> THEN [sem |-> s1, embeddings |-> << >>, encodings |-> 0]
    ELSE encode_corpus(load_model(s1, enc), enc)

\* mutation: the cached array is not consulted
C16_mutant_rebuild(sem, enc) ==
    build_prepared(prepare_product_texts(sem), enc)

\* SemanticService.build_embeddings: the service after the call, the array
\* returned (one vector per encoded text, named by the text's product key) and
\* the number of corpus encodings started
build_embeddings(sem, enc) ==
    IF sem.embeddings.built
    THEN [sem |-> sem, embeddings |-> sem.embeddings.vecs, encodings |-> 0]
    ELSE build_prepared(prepare_product_texts(sem), enc)

\* i comes before j in np.argsort(similarities)[::-1]: argsort orders by
\* ascending similarity, equal similarities in index order, and is reversed
Before(similarities, i, j) ==
    similarities[i] > similarities[j] \/ (similarities[i] = similarities[j] /\ i > j)

\* mutation: the argsort is not reversed
C12_mutant_ascending(similarities) ==
    [p \in 1..Len(similarities) |->
        CHOOSE i \in 1..Len(similarities) :
            Cardinality({j \in 1..Len(similarities) : Before(similarities, i, j)}) = p - 1]

ArgsortReversed(similarities) ==
    [p \in 1..Len(similarities) |->
        CHOOSE i \in 1..Len(similarities) :
            Cardinality({j \in 1..Len(similarities) : Before(similarities, j, i)}) = p - 1]

Take(seq, k) == SubSeq(seq, 1, IF k < Len(seq) THEN k ELSE Len(seq))

Lookup(d, key) == CHOOSE i \in 1..Len(d) : d[i].key = key
HasKey(d, key) == \E i \in 1..Len(d) : d[i].key = key

\* the result loop of find_similar_products over the kept indices; a key
\* missing from the products raises, and the method returns []
collect_results(sem, kept, similarities, top_k, encodings) ==
    IF \E p \in 1..Len(kept) :
           kept[p] > Len(sem.product_keys)
           \/ ~HasKey(sem.knowledge_base.products, sem.product_keys[kept[p]])
    THEN [sem |-> sem, results |-> << >>, encodings |-> encodings, top_k |-> top_k]
    ELSE [sem |-> sem, top_k |-> top_k,
          results |-> [p \in 1..Len(kept) |->
              [key |-> sem.product_keys[kept[p]],
               product |-> sem.knowledge_base.products[
                   Lookup(sem.knowledge_base.products, sem.product_keys[kept[p]])].product,
               score |-> similarities[kept[p]]]],
          encodings |-> encodings]

\* mutation: the threshold test is left out
C11_mutant_no_threshold(sem, similarities, top_k, threshold, encodings) ==
    collect_results(sem, Take(ArgsortReversed(similarities), top_k),
                    similarities, top_k, encodings)

\* mutation: the top_k candidates are taken in index order, not by similarity
C27_mutant_unsorted(sem, similarities, top_k, threshold, encodings) ==
    collect_results(sem,
                    SelectSeq(Take([i \in 1..Len(similarities) |-> i], top_k),
                              LAMBDA idx : similarities[idx] > threshold),
                    similarities, top_k, encodings)

\* top_indices = np.argsort(similarities)[::-1][:top_k], then the threshold
select_results(sem, similarities, top_k, threshold, encodings) ==
    collect_results(sem,
                    SelectSeq(Take(ArgsortReversed(similarities), top_k),
                              LAMBDA idx : similarities[idx] > threshold),
                    similarities, top_k, encodings)

\* mutation: a failing query encoding is not turned into the empty list
C13_mutant_query_failure(m, embeddings, sim, top_k, threshold, enc, encodings) ==
    IF m.raised
    THEN [sem |-> m.sem, results |-> << >>, encodings |-> encodings, top_k |-> top_k]
    ELSE select_results(m.sem, [i \in 1..Len(embeddings) |-> sim[embeddings[i]]],
                        top_k, threshold, encodings)

\* the query encoding and the cosine similarities, m the outcome of the
\* model access
encode_query(m, embeddings, sim, top_k, threshold, enc, encodings) ==
    IF m.raised \/ enc = "query_fail"
    THEN [sem |-> m.sem, results |-> << >>, encodings |-> encodings, top_k |-> top_k]
    ELSE select_results(m.sem, [i \in 1..Len(embeddings) |-> sim[embeddings[i]]],
                        top_k, threshold, encodings)

\* find_similar_products once build_embeddings returned b
search_embeddings(b, sim, top_k, threshold, enc) ==
    IF b.embeddings = << >>
    THEN [sem |-> b.sem, results |-> << >>, encodings |-> b.encodings, top_k |-> top_k]
    ELSE encode_query(load_model(b.sem, enc), b.embeddings, sim, top_k, threshold, enc,
                      b.encodings)

\* SemanticService.find_similar_products(query, top_k, threshold); sim gives
\* the cosine similarity of the query to the text of each product key. The
\* result holds the service after the call, the list returned, the number of
\* corpus encodings started and the top_k the call was made with
find_similar_products(sem, sim, top_k, threshold, enc) ==
    search_embeddings(build_embeddings(sem, enc), sim, top_k, threshold, enc)

\* ------------------------------------------------- keyword configuration

Phrase(ws) == Str(ws)

\* ConfigLoader._get_default_keywords (no "brands" entry)
DefaultKeywords ==
    [visa |-> << [type |-> "classic", keywords |-> << Phrase(<<"visa", "classic">>),
                      Phrase(<<"bg_viza", "bg_klasik">>), Phrase(<<"bg_klasicheska", "bg_viza">>) >>],
                 [type |-> "gold", keywords |-> << Phrase(<<"visa", "gold">>),
                      Phrase(<<"bg_viza", "bg_gold">>), Phrase(<<"bg_zlatna", "bg_viza">>) >>],
                 [type |-> "platinum", keywords |-> << Phrase(<<"visa", "platinum">>),
                      Phrase(<<"bg_viza", "bg_platinum">>), Phrase(<<"bg_platinena", "bg_viza">>) >>] >>,
     mastercard |-> << [type |-> "standard", keywords |-> << Phrase(<<"mastercard", "standard">>),
                      Phrase(<<"bg_masterkard", "bg_standartna">>) >>],
                 [type |-> "gold", keywords |-> << Phrase(<<"mastercard", "gold">>),
                      Phrase(<<"bg_masterkard", "bg_zlatna">>) >>],
                 [type |-> "platinum", keywords |-> << Phrase(<<"mastercard", "platinum">>),
                      Phrase(<<"bg_masterkard", "bg_platinena">>) >>],
                 [type |-> "first_lady", keywords |-> << Phrase(<<"first", "lady">>),
                      Phrase(<<"bg_farst", "bg_leydi">>), Phrase(<<"bg_za", "bg_dami">>) >>] >>,
     loans |-> << [type |-> "housing", keywords |-> << Phrase(<<"bg_zhilishten">>),
                      Phrase(<<"bg_ipotechen">>), Phrase(<<"bg_ipoteka">>), Phrase(<<"mortgage">>) >>],
                 [type |-> "consumer", keywords |-> << Phrase(<<"bg_potrebitelski">>),
                      Phrase(<<"consumer">>), Phrase(<<"personal", "loan">>) >>],
                 [type |-> "overdraft", keywords |-> << Phrase(<<"bg_ovardraft">>),
                      Phrase(<<"overdraft">>) >>] >>,
     brands |-> [visa |-> << >>, mastercard |-> << >>]]

\* a keywords.yml as ConfigLoader.load_keywords returns it unvalidated: the
\* defaults plus brand keywords and a loan group "other" one of whose keywords
\* is a YAML number, not a string
LoadedKeywords ==
    [DefaultKeywords EXCEPT
        !.loans = Append(@, [type |-> "other",
                             keywords |-> << Phrase(<<"other", "loan">>), OtherObject >>]),
        !.brands = [visa |-> << Phrase(<<"visa">>), Phrase(<<"bg_viza">>) >>,
                    mastercard |-> << Phrase(<<"mastercard">>) >>]]

\* any(keyword.lower() in user_input_lower for keyword in keywords): "true",
\* "false", or "raise" when a keyword without .lower() is reached first
RECURSIVE any_keyword(_, _)
any_keyword(keywords, text_lower) ==
    IF keywords = << >> THEN "false"
    ELSE IF Head(keywords).type # "str" THEN "raise"
    ELSE IF Contains(text_lower, lower(Head(keywords).toks)) THEN "true"
    ELSE any_keyword(Tail(keywords), text_lower)

\* for card_type, keywords in groups.items(): if any(...): return ...
RECURSIVE first_group(_, _)
first_group(groups, text_lower) ==
    IF groups = << >> THEN [status |-> "none", type |-> ""]
    ELSE LET a == any_keyword(Head(groups).keywords, text_lower)
         IN  IF a = "raise" THEN [status |-> "raise", type |-> ""]
             ELSE IF a = "true" THEN [status |-> "match", type |-> Head(groups).type]
             ELSE first_group(Tail(groups), text_lower)

\* the mentioned_types loop of handle_loan_inquiry
RECURSIVE mentioned_types(_, _)
mentioned_types(groups, text_lower) ==
    IF groups = << >> THEN [raised |-> FALSE, types |-> << >>]
    ELSE LET a == any_keyword(Head(groups).keywords, text_lower)
             rest == mentioned_types(Tail(groups), text_lower)
         IN  IF a = "raise" \/ rest.raised THEN [raised |-> TRUE, types |-> << >>]
             ELSE [raised |-> FALSE,
                   types |-> (IF a = "true" THEN <<Head(groups).type>> ELSE << >>) \o rest.types]

\* f'Visa {card_type.title()}' and the Mastercard names
CardName(brand, card_type) ==
    CASE brand = "Visa" /\ card_type = "classic" -> "Visa Classic"
      [] brand = "Visa" /\ card_type = "gold" -> "Visa Gold"
      [] brand = "Visa" /\ card_type = "platinum" -> "Visa Platinum"
      [] brand = "Mastercard" /\ card_type = "standard" -> "Mastercard Standard"
      [] brand = "Mastercard" /\ card_type = "gold" -> "Mastercard Gold"
      [] brand = "Mastercard" /\ card_type = "platinum" -> "Mastercard Platinum"
      [] brand = "Mastercard" /\ card_type = "first_lady" -> "Mastercard Platinum First Lady"
      [] OTHER -> "Unknown Card"

\* category_mapping.get(loan_type)
category_mapping(loan_type) ==
    CASE loan_type = "housing" -> "cat_housing"
      [] loan_type = "consumer" -> "cat_consumer"
      [] loan_type = "overdraft" -> "cat_overdraft"
      [] loan_type = "other" -> "cat_other"
      [] OTHER -> ""

\* -------------------------------------------- services/rendering_service.py

\* RenderingService.get_credit_card_summary: the key details kept (at most 3
\* of the parts naming a limit, a fee or cashback); "" is << >>
get_credit_card_summary(card) ==
    IF ~Truthy(card.info) THEN << >>
    ELSE IF card.info.type # "str" THEN << >>
    ELSE [i \in 1..(IF card.info.keyparts < 3 THEN card.info.keyparts ELSE 3) |-> i]

\* mutation: the two lines are taken after the filter, from all the lines
C25_mutant_all_lines(loan) ==
    IF ~Truthy(loan.info) THEN << >>
    ELSE IF loan.info.type # "str" THEN << >>
    ELSE LET kept == SelectSeq([i \in 1..Len(loan.info.lines) |-> i],
                              LAMBDA i : loan.info.lines[i] = "text")
         IN  SubSeq(kept, 1, IF Len(kept) < 2 THEN Len(kept) ELSE 2)

\* RenderingService.get_loan_summary: the lines kept, by line number
get_loan_summary(loan) ==
    IF ~Truthy(loan.info) THEN << >>
    ELSE IF loan.info.type # "str" THEN << >>
    ELSE LET n == IF Len(loan.info.lines) < 2 THEN Len(loan.info.lines) ELSE 2
         IN  SelectSeq([i \in 1..n |-> i], LAMBDA i : loan.info.lines[i] = "text")

\* summary_fn(info) for the two extractors passed to the renderer, and for
\* a callable without exception handling of its own ("unguarded"), which
\* returns what get_loan_summary returns when it does not raise
summary_of(summary_fn, item) ==
    IF summary_fn = "get_credit_card_summary" THEN get_credit_card_summary(item)
    ELSE get_loan_summary(item)

\* the item is a mapping (has .get); another JSON value is marked not_dict
IsDict(item) == "not_dict" \notin DOMAIN item

\* summary_fn(info) raises: the unguarded callable on a description that is
\* not a string or on an item that is not a mapping
extractor_raises(summary_fn, item) ==
    summary_fn = "unguarded" /\ (item.info.type # "str" \/ ~IsDict(item))

\* the per-item loop of render_product_list
RECURSIVE render_items(_, _, _)
render_items(items, summary_fn, lang) ==
    IF items = << >> THEN << >>
    ELSE LET it == Head(items)
             summary == IF extractor_raises(summary_fn, it) THEN << >>
                        ELSE summary_of(summary_fn, it)
         IN  <<Seg("item", "", it.name)>>
             \o (IF summary # << >> THEN <<Seg("summary", "", ToString(summary))>> ELSE << >>)
             \o (IF it.link THEN <<Seg("link", lang, it.name)>> ELSE << >>)
             \o render_items(Tail(items), summary_fn, lang)

\* mutation: the extractor is called outside the inner try
C26_mutant_extractor_aborts(header, items, summary_fn, lang) ==
    IF items = << >>
    THEN <<header, Seg("no_products", lang, "")>>
    ELSE IF \E i \in 1..Len(items) : ~IsDict(items[i]) \/ extractor_raises(summary_fn, items[i])
    THEN <<Seg("render_list_error", lang, "")>>
    ELSE <<header>> \o render_items(items, summary_fn, lang) \o <<Seg("product_tip", lang, "")>>

\* RenderingService.render_product_list: info.get('link') raises on an item
\* that is not a mapping, and the outer except returns the error message
render_product_list(header, items, summary_fn, lang) ==
    IF items = << >>
    THEN <<header, Seg("no_products", lang, "")>>
    ELSE IF \E i \in 1..Len(items) : ~IsDict(items[i])
    THEN <<Seg("render_list_error", lang, "")>>
    ELSE <<header>> \o render_items(items, summary_fn, lang) \o <<Seg("product_tip", lang, "")>>

\* RenderingService.render_specific_product
render_specific_product(product_name, product_data, lang) ==
    IF Truthy(product_data.info) /\ product_data.info.type # "str"
    THEN <<Seg("render_product_error", lang, "")>>
    ELSE LET info == product_data.info
             details == IF Truthy(info)
                        THEN SelectSeq(SubSeq(info.lines, 2, Len(info.lines)),
                                       LAMBDA l : l = "bullet")
                        ELSE << >>
         IN  <<Seg("product_header", lang, product_name)>>
             \o (IF Truthy(info) THEN <<Seg("key_benefits", lang, "")>> ELSE << >>)
             \o [i \in 1..Len(details) |-> Seg("technical_details", lang, ToString(i))]
             \o (IF product_data.link THEN <<Seg("product_link", lang, "")>> ELSE << >>)
             \o <<Seg("compare_tip", lang, "")>>

\* the per-category loop of render_category_overview
RECURSIVE render_categories(_, _)
render_categories(categories, lang) ==
    IF categories = << >> THEN << >>
    ELSE LET c == Head(categories)
             shown == Take(c.credits, 3)
         IN  <<Seg("category", lang, c.category)>>
             \o [i \in 1..Len(shown) |-> Seg("example", "", shown[i].name)]
             \o (IF Len(c.credits) > 3 THEN <<Seg("and_more", lang, ToString(Len(c.credits) - 3))>>
                  ELSE << >>)
             \o render_categories(Tail(categories), lang)

\* RenderingService.render_category_overview
render_category_overview(categories, lang) ==
    <<Seg("categories_header", lang, "")>> \o render_categories(categories, lang)

\* ----------------------------------------------- keyword inquiry handlers

\* the localized text chosen by `if self.context.user_language == 'bg'`
L(lang) == IF lang = "bg" THEN "bg" ELSE "en"

\* FibankChatbot._generate_error_response
generate_error_response(lang) == <<Seg("error", L(lang), "")>>

\* knowledge_base.get('credit_cards', {}).get(brand, {})
BrandCards(kb, brand) ==
    IF \E i \in 1..Len(kb.credit_cards) : kb.credit_cards[i].brand = brand
    THEN kb.credit_cards[CHOOSE i \in 1..Len(kb.credit_cards) :
                            kb.credit_cards[i].brand = brand].cards
    ELSE << >>

\* knowledge_base.get('credits', {}).get(category_name, {})
CategoryLoans(kb, category) ==
    IF \E i \in 1..Len(kb.credits) : kb.credits[i].category = category
    THEN kb.credits[CHOOSE i \in 1..Len(kb.credits) : kb.credits[i].category = category].credits
    ELSE << >>

\* FibankChatbot._show_specific_card
show_specific_card(kb, lang, brand, card_name) ==
    LET cards == BrandCards(kb, brand)
    IN  IF \E i \in 1..Len(cards) : cards[i].name = card_name
        THEN render_specific_product(card_name,
                 cards[CHOOSE i \in 1..Len(cards) : cards[i].name = card_name], L(lang))
        ELSE <<Seg("card_not_found", L(lang), card_name)>>

\* FibankChatbot._show_brand_cards
show_brand_cards(kb, lang, brand) ==
    render_product_list(Seg("brand_header", L(lang), brand), BrandCards(kb, brand),
                        "get_credit_card_summary", L(lang))

\* the per-brand loop of _show_all_credit_cards
RECURSIVE all_brands(_, _)
all_brands(brands, lang) ==
    IF brands = << >> THEN << >>
    ELSE <<Seg("brand", lang, Head(brands).brand)>>
         \o render_items(Head(brands).cards, "get_credit_card_summary", lang)
         \o all_brands(Tail(brands), lang)

\* FibankChatbot._show_all_credit_cards
show_all_credit_cards(kb, lang) ==
    <<Seg("all_cards_header", L(lang), "")>> \o all_brands(kb.credit_cards, L(lang))
    \o <<Seg("card_tip", L(lang), "")>>

\* FibankChatbot._show_loan_category
show_loan_category(kb, lang, category_name) ==
    render_product_list(Seg("category_header", L(lang), category_name),
                        CategoryLoans(kb, category_name), "get_loan_summary", L(lang))

\* FibankChatbot._show_all_loan_categories
show_all_loan_categories(kb, lang) ==
    render_category_overview(kb.credits, L(lang)) \o <<Seg("category_tip", L(lang), "")>>

\* mutation: the Mastercard variants are checked before the Visa variants
C20_mutant_mastercard_first(kw, kb, lang, toks) ==
    IF first_group(kw.mastercard, lower(toks)).status = "match"
    THEN show_specific_card(kb, lang, "Mastercard",
             CardName("Mastercard", first_group(kw.mastercard, lower(toks)).type))
    ELSE IF first_group(kw.visa, lower(toks)).status = "match"
    THEN show_specific_card(kb, lang, "Visa",
             CardName("Visa", first_group(kw.visa, lower(toks)).type))
    ELSE IF any_keyword(kw.brands.visa, lower(toks)) = "true"
            /\ any_keyword(kw.brands.mastercard, lower(toks)) = "false"
    THEN show_brand_cards(kb, lang, "Visa")
    ELSE IF any_keyword(kw.brands.mastercard, lower(toks)) = "true"
            /\ any_keyword(kw.brands.visa, lower(toks)) = "false"
    THEN show_brand_cards(kb, lang, "Mastercard")
    ELSE show_all_credit_cards(kb, lang)

\* FibankChatbot.handle_credit_card_inquiry
handle_credit_card_inquiry(kw, kb, lang, toks) ==
    LET text == lower(toks)
        visa == first_group(kw.visa, text)
        mastercard == first_group(kw.mastercard, text)
        visa_mentioned == any_keyword(kw.brands.visa, text)
        mastercard_mentioned == any_keyword(kw.brands.mastercard, text)
    IN  IF visa.status = "raise" THEN generate_error_response(lang)
        ELSE IF visa.status = "match"
        THEN show_specific_card(kb, lang, "Visa", CardName("Visa", visa.type))
        ELSE IF mastercard.status = "raise" THEN generate_error_response(lang)
        ELSE IF mastercard.status = "match"
        THEN show_specific_card(kb, lang, "Mastercard", CardName("Mastercard", mastercard.type))
        ELSE IF visa_mentioned = "raise" \/ mastercard_mentioned = "raise"
        THEN generate_error_response(lang)
        ELSE IF visa_mentioned = "true" /\ mastercard_mentioned = "false"
        THEN show_brand_cards(kb, lang, "Visa")
        ELSE IF mastercard_mentioned = "true" /\ visa_mentioned = "false"
        THEN show_brand_cards(kb, lang, "Mastercard")
        ELSE show_all_credit_cards(kb, lang)

\* mutation: several mentioned loan types show the first one's category
C21_mutant_first_type(kw, kb, lang, toks) ==
    IF mentioned_types(kw.loans, lower(toks)).raised THEN generate_error_response(lang)
    ELSE IF Len(mentioned_types(kw.loans, lower(toks)).types) >= 1
            /\ category_mapping(mentioned_types(kw.loans, lower(toks)).types[1]) # ""
    THEN show_loan_category(kb, lang,
             category_mapping(mentioned_types(kw.loans, lower(toks)).types[1]))
    ELSE show_all_loan_categories(kb, lang)

\* FibankChatbot.handle_loan_inquiry
handle_loan_inquiry(kw, kb, lang, toks) ==
    LET m == mentioned_types(kw.loans, lower(toks))
    IN  IF m.raised THEN generate_error_response(lang)
        ELSE IF Len(m.types) = 1 /\ category_mapping(m.types[1]) # ""
        THEN show_loan_category(kb, lang, category_mapping(m.types[1]))
        ELSE show_all_loan_categories(kb, lang)

\* ------------------------------------------------------- core/context.py

\* ConversationContext.get_recent_context(turns):
\* conversation_history[-turns:] if conversation_history else []
get_recent_context(history, turns) ==
    IF history = << >> THEN << >>
    ELSE IF turns = 0 \/ turns >= Len(history) THEN history
    ELSE SubSeq(history, Len(history) - turns + 1, Len(history))

\* ------------------------------------------- the generation fallback chain

\* GeminiService.create_structured_prompt: product['description'][:200] of
\* each of the first 3 relevant products raises TypeError unless the
\* description is a string
create_structured_prompt(toks, lang, relevant_products, recent_context) ==
    IF \E i \in 1..Len(Take(relevant_products, 3)) :
           relevant_products[i].product.description.type # "str"
    THEN [raised |-> TRUE, context |-> << >>, products |-> << >>]
    ELSE [raised |-> FALSE,
          context |-> get_recent_context(recent_context, 3),
          products |-> [i \in 1..Len(Take(relevant_products, 3)) |-> relevant_products[i].key]]

\* the product loop of _generate_semantic_fallback_response
RECURSIVE fallback_products(_, _)
fallback_products(products, i) ==
    IF products = << >> THEN << >>
    ELSE <<Seg("product", ToString(i), Head(products).product.name)>>
         \o (IF Truthy(Head(products).product.description)
              THEN <<Seg(IF Head(products).product.description.long
                         THEN "description..." ELSE "description", "", "")>>
              ELSE << >>)
         \o fallback_products(Tail(products), i + 1)

\* product['description'][:200] in the product loop raises unless a truthy
\* description is a string
slice_raises(results) ==
    \E i \in 1..Len(Take(results, 3)) :
        Truthy(results[i].product.description) /\ results[i].product.description.type # "str"

fallback_render(results, lang) ==
    IF results = << >> THEN <<Seg("no_relevant_info", L(lang), "")>>
    ELSE IF slice_raises(results) THEN generate_error_response(lang)
    ELSE <<Seg("based_on_question", L(lang), "")>> \o fallback_products(Take(results, 3), 1)
         \o <<Seg("learn_more", L(lang), "")>>

\* what _generate_semantic_fallback_response returns and leaves behind once
\* the retriever returned r
fallback_result(r, lang) ==
    [response |-> fallback_render(r.results, lang), sem |-> r.sem,
     retrievals |-> <<r.top_k>>, failed |-> r.results # << >> /\ slice_raises(r.results),
     found |-> Len(r.results)]

\* mutation: the fallback retrieves with the retriever's default top_k
C9_mutant_default_top_k(sem, lang, sim, enc) ==
    fallback_result(find_similar_products(sem, sim, DefaultTopK, DefaultThreshold, enc), lang)

\* FibankChatbot._generate_semantic_fallback_response
generate_semantic_fallback_response(sem, lang, sim, enc) ==
    fallback_result(find_similar_products(sem, sim, FallbackTopK, DefaultThreshold, enc), lang)

NoAi == [called |-> FALSE, value |-> PyNone, calls |-> 0]

\* the chain's result when it ends in the semantic-search fallback
chain_fallback(fb, retrievals, ai_error, ai) ==
    [response |-> fb.response, sem |-> fb.sem, retrievals |-> retrievals \o fb.retrievals,
     stage |-> "fallback", ai_error |-> ai_error, fallback_error |-> fb.failed, ai |-> ai,
     found |-> fb.found]

\* `if ai_response: return ai_response`, else the fallback
ai_result(ai, r, lang, env) ==
    IF PyTruthy(ai.value)
    THEN [response |-> ai.value.text, sem |-> r.sem, retrievals |-> <<r.top_k>>,
          stage |-> "ai", ai_error |-> FALSE, fallback_error |-> FALSE,
          ai |-> [called |-> TRUE, value |-> ai.value, calls |-> ai.calls], found |-> 0]
    ELSE chain_fallback(generate_semantic_fallback_response(r.sem, lang, env.sim, env.enc[2]),
                        <<r.top_k>>, FALSE,
                        [called |-> TRUE, value |-> ai.value, calls |-> ai.calls])

\* mutation: an exception in the AI stage answers the error response
C10_mutant_ai_error(r, gemini, history, lang, toks, env) ==
    IF create_structured_prompt(toks, lang, r.results, history).raised
    THEN [response |-> generate_error_response(lang), sem |-> r.sem,
          retrievals |-> <<r.top_k>>, stage |-> "ai", ai_error |-> TRUE,
          fallback_error |-> FALSE, ai |-> NoAi, found |-> 0]
    ELSE ai_result(gemini_generate_response(gemini, env.gen, MaxRetries), r, lang, env)

\* the AI stage once the retriever returned r: an exception while the prompt
\* is built is caught by `except Exception`, which returns the fallback
ai_stage(r, gemini, history, lang, toks, env) ==
    IF create_structured_prompt(toks, lang, r.results, history).raised
    THEN chain_fallback(generate_semantic_fallback_response(r.sem, lang, env.sim, env.enc[2]),
                        <<r.top_k>>, TRUE, NoAi)
    ELSE ai_result(gemini_generate_response(gemini, env.gen, MaxRetries), r, lang, env)

\* FibankChatbot._generate_ai_or_fallback_response: env holds what the
\* collaborators do during the call (sim, gen, and enc for the two retrievals)
generate_ai_or_fallback_response(gemini, sem, history, lang, toks, env) ==
    IF ~gemini.is_available
    THEN chain_fallback(generate_semantic_fallback_response(sem, lang, env.sim, env.enc[2]),
                        << >>, FALSE, NoAi)
    ELSE ai_stage(find_similar_products(sem, env.sim, DefaultTopK, DefaultThreshold, env.enc[1]),
                  gemini, history, lang, toks, env)

\* --------------------------------------------------- the turn orchestrator

VARIABLES
    context,           \* ConversationContext: user_language, conversation_history
    gemini_service,    \* GeminiService: is_available, model (a handle is set)
    semantic_service,  \* SemanticService: _model, _embeddings, _product_texts, ...
    knowledge_base,    \* FibankChatbot.knowledge_base
    intent_patterns,   \* FibankChatbot.intent_patterns
    keywords,          \* FibankChatbot.keywords
    calls,             \* number of generate_response calls made so far
    last               \* what the latest generate_response call did and returned

vars == <<context, gemini_service, semantic_service, knowledge_base, intent_patterns,
          keywords, calls, last>>

\* mutation: the footer is always the English one
C2_mutant_english_footer(lang) == Seg("contact_footer_2265", "en", "")

\* the contact-information footer appended at the end of generate_response
Footer(lang) == Seg("contact_footer_2265", L(lang), "")

\* the "Please enter your question." text of the input validation
EnterQuestion == <<Seg("please_enter_your_question", "en", "")>>

\* what a call that stops at the input validation returns and leaves behind
Rejected(ctx, sem) ==
    [raised |-> FALSE, caught |-> FALSE, response |-> EnterQuestion, context |-> ctx,
     sem |-> sem, classified |-> FALSE, intent |-> "", confidence |-> 0, handler |-> "none",
     stage |-> "none", ai_error |-> FALSE, fallback_error |-> FALSE, ai |-> NoAi,
     retrievals |-> << >>, found |-> 0]

\* the else branch of the dispatch: the chain's response and the footer
chain_turn(turn, chain, lang) ==
    [turn EXCEPT !.handler = "chain",
                 !.response = Append(chain.response, Footer(lang)),
                 !.sem = chain.sem, !.stage = chain.stage, !.ai_error = chain.ai_error,
                 !.fallback_error = chain.fallback_error, !.ai = chain.ai,
                 !.retrievals = chain.retrievals, !.found = chain.found]

\* mutation: a loans turn is answered by the credit-card handler
C6_mutant_dispatch(turn, gemini, kw, kb, toks, env) ==
    IF turn.intent \in {"credit_cards", "loans"}
    THEN [turn EXCEPT !.handler = "credit_cards",
             !.response = Append(handle_credit_card_inquiry(kw, kb,
                                     turn.context.user_language, toks),
                                 Footer(turn.context.user_language))]
    ELSE chain_turn(turn,
                    generate_ai_or_fallback_response(gemini, turn.sem,
                        turn.context.conversation_history, turn.context.user_language,
                        toks, env),
                    turn.context.user_language)

\* mutation: a loans turn consults the generation chain before it answers
C22_mutant_loans_by_chain(turn, gemini, kw, kb, toks, env) ==
    IF turn.intent = "credit_cards"
    THEN [turn EXCEPT !.handler = "credit_cards",
             !.response = Append(handle_credit_card_inquiry(kw, kb,
                                     turn.context.user_language, toks),
                                 Footer(turn.context.user_language))]
    ELSE IF turn.intent = "loans"
    THEN [chain_turn(turn,
                     generate_ai_or_fallback_response(gemini, turn.sem,
                         turn.context.conversation_history, turn.context.user_language,
                         toks, env),
                     turn.context.user_language)
             EXCEPT !.handler = "loans",
                    !.response = Append(handle_loan_inquiry(kw, kb,
                                            turn.context.user_language, toks),
                                        Footer(turn.context.user_language))]
    ELSE chain_turn(turn,
                    generate_ai_or_fallback_response(gemini, turn.sem,
                        turn.context.conversation_history, turn.context.user_language,
                        toks, env),
                    turn.context.user_language)

\* `if intent == 'credit_cards' ... elif intent == 'loans' ... else ...` and
\* the footer, turn being the call's record once the history is appended
dispatch(turn, gemini, kw, kb, toks, env) ==
    IF turn.intent = "credit_cards"
    THEN [turn EXCEPT !.handler = "credit_cards",
             !.response = Append(handle_credit_card_inquiry(kw, kb,
                                     turn.context.user_language, toks),
                                 Footer(turn.context.user_language))]
    ELSE IF turn.intent = "loans"
    THEN [turn EXCEPT !.handler = "loans",
             !.response = Append(handle_loan_inquiry(kw, kb,
                                     turn.context.user_language, toks),
                                 Footer(turn.context.user_language))]
    ELSE chain_turn(turn,
                    generate_ai_or_fallback_response(gemini, turn.sem,
                        turn.context.conversation_history, turn.context.user_language,
                        toks, env),
                    turn.context.user_language)

\* mutation: the history is replaced by the new record instead of extended
C5_mutant_overwrite(ctx, sem, toks, lang, found) ==
    [Rejected(ctx, sem) EXCEPT
        !.response = << >>,
        !.context = [user_language |-> lang,
                     conversation_history |->
                         <<[user |-> toks, language |-> lang, intent |-> found.intent,
                            confidence |-> found.confidence]>>],
        !.classified = TRUE, !.intent = found.intent, !.confidence = found.confidence]

\* self.context.user_language = ...; conversation_history.append({...})
\* (the record's timestamp is left out)
record_turn(ctx, sem, toks, lang, found) ==
    [Rejected(ctx, sem) EXCEPT
        !.response = << >>,
        !.context = [user_language |-> lang,
                     conversation_history |->
                         Append(ctx.conversation_history,
                                [user |-> toks, language |-> lang, intent |-> found.intent,
                                 confidence |-> found.confidence])],
        !.classified = TRUE, !.intent = found.intent, !.confidence = found.confidence]

\* mutation: the input validation is skipped
C3_mutant_no_validation(ctx, gemini, sem, kw, patterns, kb, user_input, env) ==
    IF user_input.type # "str"
    THEN [Rejected(ctx, sem) EXCEPT !.raised = TRUE, !.response = << >>]
    ELSE dispatch(record_turn(ctx, sem, user_input.toks,
                              detect_language(user_input.toks, env.ld),
                              find_intent(patterns, user_input.toks)),
                  gemini, kw, kb, user_input.toks, env)

\* the try block of FibankChatbot.generate_response: the value returned or
\* the exception raised, the context and the retriever afterwards, and which
\* collaborators the turn used
generate_response_try(ctx, gemini, sem, kw, patterns, kb, user_input, env) ==
    IF Falsy(user_input) THEN Rejected(ctx, sem)
    ELSE IF user_input.type # "str"
    THEN [Rejected(ctx, sem) EXCEPT !.raised = TRUE, !.response = << >>]
    ELSE IF strip(user_input.toks) = << >> THEN Rejected(ctx, sem)
    ELSE dispatch(record_turn(ctx, sem, user_input.toks,
                              detect_language(user_input.toks, env.ld),
                              find_intent(patterns, user_input.toks)),
                  gemini, kw, kb, user_input.toks, env)

\* mutation: generate_response has no except clause
C1_mutant_propagate(t) == t

\* `except Exception: return self._generate_error_response()`
catch_all(t) ==
    IF t.raised
    THEN [t EXCEPT !.raised = FALSE, !.caught = TRUE,
                   !.response = generate_error_response(t.context.user_language)]
    ELSE t

\* FibankChatbot.generate_response
generate_response(ctx, gemini, sem, kw, patterns, kb, user_input, env) ==
    catch_all(generate_response_try(ctx, gemini, sem, kw, patterns, kb, user_input, env))

\* ------------------------------------------------ inputs and collaborators

\* the user inputs tried: None, "", " ", a non-string object, and texts
Corpus ==
    { NoneValue, Str(<< >>), Str(<<SP>>), OtherObject,
      Str(<<"VISA", "gold">>),            \* a specific Visa card, upper case
      Str(<<"visa">>),                    \* a brand
      Str(<<"bg_karta">>),                \* "card" in Bulgarian
      Str(<<"bg_kredit", "bg_karta">>),   \* matches credit_cards and loans
      Str(<<"overdraft">>),               \* one loan type
      Str(<<"bg_ipoteka">>),              \* one loan type, Bulgarian
      Str(<<"loan">>),                    \* no loan type
      Str(<<"hello">>),                   \* general, Latin
      Str(<<SP, "bg_zdravey">>),          \* general, Bulgarian
      Str(<<"rate">>),                    \* intent rates
      Str(<<"cyr_yery">>) }               \* Cyrillic outside the Bulgarian set

\* the product keys of the knowledge base
ProductKeys == {KnowledgeBase.products[i].key : i \in 1..Len(KnowledgeBase.products)}

\* similarities in tenths: at the threshold and above it
ScoreLevels == {DefaultThreshold, DefaultThreshold + 1}

DefaultEnv ==
    [ld |-> "en", gen |-> [i \in 1..(MaxRetries + 1) |-> "text"],
     enc |-> <<"ok", "ok">>, sim |-> [k \in ProductKeys |-> DefaultThreshold]]

NonBlank(u) == u.type = "str" /\ strip(u.toks) # << >>

\* the turn reaches the statistical detector
NeedsLangDetect(u) ==
    NonBlank(u) /\ \A ld \in LangDetectOutcomes : detect_language(u.toks, ld) = L(ld)

\* the turn is dispatched to the generation fallback chain
IsChainTurn(u) ==
    NonBlank(u) /\ find_intent(intent_patterns, u.toks).intent \notin {"credit_cards", "loans"}

\* the behaviours of the collaborators during a turn on input u, drawn from
\* the given sets; what the turn does not consult is left at its default
Envs(u, Lds, Scripts, Encs, Sims) ==
    { [ld |-> ld, gen |-> gen, enc |-> <<e1, e2>>, sim |-> sim] :
        ld \in (IF NeedsLangDetect(u) THEN Lds ELSE {DefaultEnv.ld}),
        gen \in (IF IsChainTurn(u) /\ gemini_service.is_available
                 THEN Scripts ELSE {DefaultEnv.gen}),
        e1 \in (IF IsChainTurn(u) /\ gemini_service.is_available
                THEN Encs ELSE {"ok"}),
        e2 \in (IF IsChainTurn(u) THEN Encs ELSE {"ok"}),
        sim \in (IF IsChainTurn(u) THEN Sims ELSE {DefaultEnv.sim}) }

AllSims == [ProductKeys -> ScoreLevels]

\* the part of a call's record kept in `last`
Trace(out) ==
    [raised |-> out.raised, caught |-> out.caught, response |-> out.response,
     classified |-> out.classified, intent |-> out.intent, confidence |-> out.confidence,
     handler |-> out.handler, stage |-> out.stage, ai_error |-> out.ai_error,
     fallback_error |-> out.fallback_error, ai |-> out.ai, retrievals |-> out.retrievals,
     found |-> out.found]

NoTurn ==
    [called |-> FALSE, input |-> NoneValue, env |-> DefaultEnv,
     pre |-> [user_language |-> "en", conversation_history |-> << >>],
     out |-> Trace([Rejected(<< >>, << >>) EXCEPT !.response = << >>])]

\* the state after FibankChatbot.__init__
Init ==
    /\ context = [user_language |-> "en", conversation_history |-> << >>]
    /\ gemini_service \in {[is_available |-> FALSE, model |-> FALSE],
                            [is_available |-> TRUE, model |-> TRUE]}
    /\ semantic_service = [model |-> FALSE, embeddings |-> [built |-> FALSE, vecs |-> << >>],
                           product_texts |-> << >>, product_keys |-> << >>,
                           kb_set |-> TRUE, knowledge_base |-> KnowledgeBase]
    /\ knowledge_base = KnowledgeBase
    /\ intent_patterns = DefaultIntentPatterns
    /\ keywords \in {DefaultKeywords, LoadedKeywords}
    /\ calls = 0
    /\ last = NoTurn

\* the effect of a call that went as `out`
Effect(u, env, out) ==
    /\ context' = out.context
    /\ semantic_service' = out.sem
    /\ last' = [called |-> TRUE, input |-> u, env |-> env, pre |-> context, out |-> Trace(out)]
    /\ calls' = calls + 1
    /\ UNCHANGED <<gemini_service, knowledge_base, intent_patterns, keywords>>

\* one call generate_response(u) while the collaborators behave as env
Turn(u, env) ==
    Effect(u, env, generate_response(context, gemini_service, semantic_service, keywords,
                                     intent_patterns, knowledge_base, u, env))

\* number of calls in a session
MaxTurns == 2

\* the collaborator behaviours tried in sessions of several turns
SessionLangs == {"en"}
SessionScripts == { <<"text", "text", "text">>, <<"raise", "empty", "raise">> }
SessionEncs == {"ok", "corpus_fail"}
SessionSims ==
    { [k \in ProductKeys |-> DefaultThreshold],
      [k \in ProductKeys |-> IF k = "Visa Gold" THEN DefaultThreshold + 1 ELSE DefaultThreshold] }

\* a session: generate_response called with any input of the corpus
GenerateResponse ==
    /\ calls < MaxTurns
    /\ \E u \in Corpus :
          \E env \in Envs(u, SessionLangs, SessionScripts, SessionEncs, SessionSims) :
             Turn(u, env)

Next == GenerateResponse

Spec == Init /\ [][Next]_vars

\* a single call under every behaviour of the collaborators
FirstTurn ==
    /\ calls = 0
    /\ \E u \in Corpus :
          \E env \in Envs(u, LangDetectOutcomes, GenScripts, EncOutcomes, AllSims) :
             Turn(u, env)

TurnSpec == Init /\ [][FirstTurn]_vars

\* ------------------------------------------- the retriever on its own

\* mutation: the cached index survives the replacement
C15_mutant_keep_index(sem, kb) ==
    [sem EXCEPT !.knowledge_base = kb, !.kb_set = TRUE]

\* SemanticService.set_knowledge_base
set_knowledge_base(sem, kb) ==
    [sem EXCEPT !.knowledge_base = kb, !.kb_set = TRUE,
                !.embeddings = [built |-> FALSE, vecs |-> << >>],
                !.product_texts = << >>, !.product_keys = << >>]

\* a second catalog: a product under a key of the first catalog, with other
\* data, and a product the first catalog does not hold
OtherProducts ==
    << [key |-> "Visa Gold",
        product |-> [name |-> "Visa Gold", type |-> "credit_card", category |-> "Visa",
                     description |-> EmptyInfo]],
       [key |-> "Student Loan",
        product |-> [name |-> "Student Loan", type |-> "credit", category |-> "cat_consumer",
                     description |-> TextInfo(FALSE, <<"text">>, 0)]] >>

OtherCatalog == [KnowledgeBase EXCEPT !.products = OtherProducts]

\* a catalog without products
EmptyCatalog == [KnowledgeBase EXCEPT !.products = << >>]

Catalogs == {KnowledgeBase, OtherCatalog, EmptyCatalog}

CatalogKeys(kb) == {kb.products[i].key : i \in 1..Len(kb.products)}

RetrieverKeys == UNION {CatalogKeys(kb) : kb \in Catalogs}

\* the top_k and threshold arguments tried
TopKs == {0, 1, 2, DefaultTopK, FallbackTopK}
Thresholds == {DefaultThreshold - 1, DefaultThreshold}

\* what the embedding model can do during a call on the service as it is: a
\* loaded model does not load again, a built index is not encoded again
RetrieverEncs(sem) ==
    {"ok", "query_fail"}
    \cup (IF sem.model THEN {} ELSE {"load_fail"})
    \cup (IF sem.embeddings.built THEN {} ELSE {"corpus_fail"})

\* the retriever after SemanticService.__init__
NewSemanticService ==
    [model |-> FALSE, embeddings |-> [built |-> FALSE, vecs |-> << >>],
     product_texts |-> << >>, product_keys |-> << >>,
     kb_set |-> FALSE, knowledge_base |-> EmptyCatalog]

NoCall ==
    [called |-> FALSE, op |-> "none", sim |-> [k \in RetrieverKeys |-> DefaultThreshold],
     top_k |-> DefaultTopK, threshold |-> DefaultThreshold, enc |-> "ok",
     results |-> << >>, encodings |-> 0, dropped |-> << >>, retried |-> FALSE]

RetrieverInit ==
    /\ context = [user_language |-> "en", conversation_history |-> << >>]
    /\ gemini_service = [is_available |-> FALSE, model |-> FALSE]
    /\ semantic_service = NewSemanticService
    /\ knowledge_base = KnowledgeBase
    /\ intent_patterns = DefaultIntentPatterns
    /\ keywords = DefaultKeywords
    /\ calls = 0
    /\ last = NoCall

\* semantic_service.set_knowledge_base(kb); `dropped` keeps the vectors the
\* replacement discards
SetKnowledgeBase ==
    \E kb \in Catalogs :
        /\ semantic_service' = set_knowledge_base(semantic_service, kb)
        /\ last' = [NoCall EXCEPT !.called = TRUE, !.op = "set_knowledge_base",
                                  !.dropped = semantic_service.embeddings.vecs]
        /\ UNCHANGED <<context, gemini_service, knowledge_base, intent_patterns, keywords,
                       calls>>

\* the effect of a find_similar_products call that went as r; `dropped` are
\* the vectors discarded by a catalog replacement just before the call, and
\* `retried` tells that the call found the texts prepared and no index: an
\* earlier build on this catalog failed
Retrieved(sim, threshold, enc, r) ==
    /\ semantic_service' = r.sem
    /\ last' = [called |-> TRUE, op |-> "find_similar_products", sim |-> sim,
                top_k |-> r.top_k, threshold |-> threshold, enc |-> enc,
                results |-> r.results, encodings |-> r.encodings,
                dropped |-> IF last.op = "set_knowledge_base" THEN last.dropped ELSE << >>,
                retried |-> (semantic_service.product_keys # << >>
                             /\ ~semantic_service.embeddings.built)]
    /\ UNCHANGED <<context, gemini_service, knowledge_base, intent_patterns, keywords, calls>>

\* the similarities of a query to the texts of the catalog's products (the
\* entry of a key the catalog does not hold is never read and kept fixed)
QuerySims(kb) ==
    {sim \in [RetrieverKeys -> ScoreLevels] :
        \A k \in RetrieverKeys \ CatalogKeys(kb) : sim[k] = DefaultThreshold}

\* semantic_service.find_similar_products(query, top_k, threshold)
FindSimilar ==
    \E sim \in QuerySims(semantic_service.knowledge_base), top_k \in TopKs,
       threshold \in Thresholds :
        \E enc \in RetrieverEncs(semantic_service) :
            Retrieved(sim, threshold, enc,
                      find_similar_products(semantic_service, sim, top_k, threshold, enc))

RetrieverNext == SetKnowledgeBase \/ FindSimilar

RetrieverSpec == RetrieverInit /\ [][RetrieverNext]_vars

\* ------------------------------------------------ the catalog merge

\* entries of one brand or category
MaxGroupSize == 2

\* product names of the data files: two of them differ only by quote
\* characters
DataNames == {"Visa Gold", "Smart Loan", "\"Smart\" Loan"}

\* one JSON object of products: names are its keys, so none repeats
Groups(info) ==
    UNION { { [i \in 1..n |-> [name |-> f[i], info |-> info, link |-> FALSE]] :
                f \in {g \in [1..n -> DataNames] : \A i, j \in 1..n : g[i] = g[j] => i = j} } :
            n \in 0..MaxGroupSize }

\* credit_cards.json and credits.json as they may be loaded
CardFiles ==
    { << [brand |-> "Visa", cards |-> v], [brand |-> "Mastercard", cards |-> m] >> :
        v \in Groups(EmptyInfo), m \in Groups(EmptyInfo) }
CreditFiles ==
    { << [category |-> "cat_consumer", credits |-> c] >> :
        c \in Groups(TextInfo(FALSE, <<"text">>, 0)) }

MergeInit ==
    /\ context = [user_language |-> "en", conversation_history |-> << >>]
    /\ gemini_service = [is_available |-> FALSE, model |-> FALSE]
    /\ semantic_service = NewSemanticService
    /\ knowledge_base = [products |-> << >>, credit_cards |-> << >>, credits |-> << >>]
    /\ intent_patterns = DefaultIntentPatterns
    /\ keywords = DefaultKeywords
    /\ calls = 0
    /\ last = [called |-> FALSE, op |-> "none"]

\* _setup_knowledge_base on the loaded files, once, during construction: the
\* knowledge base holds the merged products and both datasets
SetupKnowledgeBase ==
    \E credit_cards \in CardFiles, credits \in CreditFiles :
        /\ ~last.called
        /\ knowledge_base' = [products |-> combine_products(credit_cards, credits),
                              credit_cards |-> credit_cards, credits |-> credits]
        /\ last' = [called |-> TRUE, op |-> "setup_knowledge_base"]
        /\ UNCHANGED <<context, gemini_service, semantic_service, intent_patterns, keywords,
                       calls>>

MergeSpec == MergeInit /\ [][SetupKnowledgeBase]_vars

\* ------------------------------------------- the credit-card handler

\* words of a card inquiry
MaxWords == 3

CardWords ==
    {"visa", "Gold", "mastercard", "bg_masterkard", "bg_viza", "bg_zlatna", "bg_klasik"}

CardTexts == UNION {[1..n -> CardWords] : n \in 0..MaxWords}

CardInit ==
    /\ context = [user_language |-> "en", conversation_history |-> << >>]
    /\ gemini_service = [is_available |-> FALSE, model |-> FALSE]
    /\ semantic_service = NewSemanticService
    /\ knowledge_base = KnowledgeBase
    /\ intent_patterns = DefaultIntentPatterns
    /\ keywords \in {DefaultKeywords, LoadedKeywords}
    /\ calls = 0
    /\ last = [called |-> FALSE, op |-> "none", toks |-> << >>, response |-> << >>]

\* handle_credit_card_inquiry(user_input) in a session of either language
CardInquiry ==
    \E toks \in CardTexts, lang \in {"en", "bg"} :
        /\ ~last.called
        /\ context' = [context EXCEPT !.user_language = lang]
        /\ last' = [called |-> TRUE, op |-> "handle_credit_card_inquiry", toks |-> toks,
                    response |-> handle_credit_card_inquiry(keywords, knowledge_base, lang,
                                                            toks)]
        /\ UNCHANGED <<gemini_service, semantic_service, knowledge_base, intent_patterns,
                       keywords, calls>>

CardSpec == CardInit /\ [][CardInquiry]_vars

\* ------------------------------------------------- the loan handler

\* a keywords.yml with a loan type that category_mapping does not list
CustomKeywords ==
    [DefaultKeywords EXCEPT
        !.loans = Append(@, [type |-> "student", keywords |-> << Phrase(<<"student">>) >>])]

\* words of a loan inquiry
LoanWords == {"overdraft", "Mortgage", "bg_ipoteka", "consumer", "student", "other", "loan"}

LoanTexts == UNION {[1..n -> LoanWords] : n \in 0..MaxWords}

LoanInit ==
    /\ context = [user_language |-> "en", conversation_history |-> << >>]
    /\ gemini_service = [is_available |-> FALSE, model |-> FALSE]
    /\ semantic_service = NewSemanticService
    /\ knowledge_base = KnowledgeBase
    /\ intent_patterns = DefaultIntentPatterns
    /\ keywords \in {DefaultKeywords, LoadedKeywords, CustomKeywords}
    /\ calls = 0
    /\ last = [called |-> FALSE, op |-> "none", toks |-> << >>, response |-> << >>]

\* handle_loan_inquiry(user_input) in a session of either language
LoanInquiry ==
    \E toks \in LoanTexts, lang \in {"en", "bg"} :
        /\ ~last.called
        /\ context' = [context EXCEPT !.user_language = lang]
        /\ last' = [called |-> TRUE, op |-> "handle_loan_inquiry", toks |-> toks,
                    response |-> handle_loan_inquiry(keywords, knowledge_base, lang, toks)]
        /\ UNCHANGED <<gemini_service, semantic_service, knowledge_base, intent_patterns,
                       keywords, calls>>

LoanSpec == LoanInit /\ [][LoanInquiry]_vars

\* ------------------------------------- sessions after every kind of setup

\* mutation: the placeholder key is taken for a key
C29_mutant_placeholder_key(library, api_key, setup) ==
    IF ~library THEN [is_available |-> FALSE, model |-> FALSE]
    ELSE IF api_key \in {"none", ""} THEN [is_available |-> FALSE, model |-> FALSE]
    ELSE IF setup # "ok" THEN [is_available |-> FALSE, model |-> FALSE]
    ELSE [is_available |-> TRUE, model |-> TRUE]

\* GeminiService.__init__ and _setup_model: library tells whether
\* google.generativeai was imported, api_key is the key passed or read from
\* the environment ("none" when unset), setup what genai.configure and
\* genai.GenerativeModel do: "ok", or one of them raises
setup_model(library, api_key, setup) ==
    IF ~library THEN [is_available |-> FALSE, model |-> FALSE]
    ELSE IF api_key \in {"none", "", "your_gemini_api_key_here"}
    THEN [is_available |-> FALSE, model |-> FALSE]
    ELSE IF setup # "ok" THEN [is_available |-> FALSE, model |-> FALSE]
    ELSE [is_available |-> TRUE, model |-> TRUE]

\* the state after FibankChatbot.__init__, the Gemini service set up in
\* every way; the service keeps how it was set up (the key is not read
\* without the library, the library is not called without a key)
GeminiInit ==
    /\ context = [user_language |-> "en", conversation_history |-> << >>]
    /\ gemini_service \in
          { r \in { [is_available |-> setup_model(l, k, st).is_available,
                     model |-> setup_model(l, k, st).model,
                     library |-> l, api_key |-> k, setup |-> st] :
                       l \in BOOLEAN,
                       k \in {"none", "", "your_gemini_api_key_here", "key"},
                       st \in {"ok", "configure_raises", "model_raises"} } :
              /\ ~r.library => r.api_key = "none"
              /\ (~r.library \/ r.api_key # "key") => r.setup = "ok" }
    /\ semantic_service = [NewSemanticService EXCEPT !.kb_set = TRUE,
                                                     !.knowledge_base = KnowledgeBase]
    /\ knowledge_base = KnowledgeBase
    /\ intent_patterns = DefaultIntentPatterns
    /\ keywords = DefaultKeywords
    /\ calls = 0
    /\ last = NoTurn

GeminiSpec == GeminiInit /\ [][Next]_vars

\* ------------------------------------------------- the session loop

\* the exit commands of start_conversation
exit_commands ==
    { <<"quit">>, <<"exit">>, <<"bye">>, <<"bg_dovizhdane">>, <<"bg_chao">>, <<"bg_izhod">> }

\* what input() does: returns a line, or raises EOFError, KeyboardInterrupt
\* or another exception
LoopInputs ==
    { [kind |-> "eof", toks |-> << >>], [kind |-> "interrupt", toks |-> << >>],
      [kind |-> "raise", toks |-> << >>] }
    \cup { [kind |-> "line", toks |-> t] :
             t \in { <<"quit">>, <<SP, "EXIT", SP>>, <<"bg_dovizhdane">>, << >>, <<SP>>,
                     <<"quit", "hello">>, <<"bg_ipoteka">>, <<"hello">>, <<"overdraft">> } }

\* the line is an exit command / is empty, once stripped
IsExit(in) == in.kind = "line" /\ lower(strip(in.toks)) \in exit_commands
IsEmpty(in) == in.kind = "line" /\ strip(in.toks) = << >>

\* what the print calls of one iteration do: the prints of the try block,
\* then the print of the except clause that is entered
PrintScripts(in) ==
    IF in.kind # "line" THEN { <<"ok", "ok">>, <<"ok", "raise">> }
    ELSE IF IsEmpty(in) THEN { <<"ok", "ok">> }
    ELSE { <<"ok", "ok">>, <<"raise", "ok">>, <<"raise", "raise">> }

\* how an iteration ends once an except clause is entered: its print
\* returns and the clause breaks or continues, or its print raises and the
\* exception leaves start_conversation
except_clause(clause, print) ==
    IF print = "raise" THEN [running |-> FALSE, ended_by |-> "exception"]
    ELSE IF clause = "Exception" THEN [running |-> TRUE, ended_by |-> ""]
    ELSE [running |-> FALSE, ended_by |-> clause]

\* the end of the try block after its prints
try_end(is_exit, prints) ==
    IF prints[1] = "raise" THEN except_clause("Exception", prints[2])
    ELSE IF is_exit THEN [running |-> FALSE, ended_by |-> "exit"]
    ELSE [running |-> TRUE, ended_by |-> ""]

\* the state before the first iteration of the loop of start_conversation
LoopInit ==
    /\ context = [user_language |-> "en", conversation_history |-> << >>]
    /\ gemini_service \in {[is_available |-> FALSE, model |-> FALSE],
                            [is_available |-> TRUE, model |-> TRUE]}
    /\ semantic_service = [NewSemanticService EXCEPT !.kb_set = TRUE,
                                                     !.knowledge_base = KnowledgeBase]
    /\ knowledge_base = KnowledgeBase
    /\ intent_patterns = DefaultIntentPatterns
    /\ keywords \in {DefaultKeywords, LoadedKeywords}
    /\ calls = 0
    /\ last = [called |-> FALSE, op |-> "none", running |-> TRUE, ended_by |-> "", lines |-> 0,
               in |-> [kind |-> "line", toks |-> << >>], prints |-> <<"ok", "ok">>,
               invoked |-> FALSE, response |-> << >>,
               pre |-> [user_language |-> "en", conversation_history |-> << >>]]

\* number of iterations of the loop
MaxLines == 2

\* an iteration that does not reach generate_response
NoInvocation(in, prints, end) ==
    /\ last' = [called |-> TRUE, op |-> "start_conversation", running |-> end.running,
                ended_by |-> end.ended_by, lines |-> last.lines + 1, in |-> in,
                prints |-> prints, invoked |-> FALSE, response |-> << >>, pre |-> context]
    /\ UNCHANGED <<context, gemini_service, semantic_service, knowledge_base,
                   intent_patterns, keywords, calls>>

\* an iteration that calls generate_response, which goes as out, and prints
Invocation(in, prints, out) ==
    /\ context' = out.context
    /\ semantic_service' = out.sem
    /\ calls' = calls + 1
    /\ last' = [called |-> TRUE, op |-> "start_conversation",
                running |-> try_end(FALSE, prints).running,
                ended_by |-> try_end(FALSE, prints).ended_by, lines |-> last.lines + 1,
                in |-> in, prints |-> prints, invoked |-> TRUE, response |-> out.response,
                pre |-> context]
    /\ UNCHANGED <<gemini_service, knowledge_base, intent_patterns, keywords>>

\* one iteration of `while True:` in start_conversation
ReadLine ==
    /\ last.running
    /\ last.lines < MaxLines
    /\ \E in \in LoopInputs : \E prints \in PrintScripts(in) :
          IF in.kind = "eof" THEN NoInvocation(in, prints, except_clause("eof", prints[2]))
          ELSE IF in.kind = "interrupt"
          THEN NoInvocation(in, prints, except_clause("interrupt", prints[2]))
          ELSE IF in.kind = "raise"
          THEN NoInvocation(in, prints, except_clause("Exception", prints[2]))
          ELSE IF IsExit(in) THEN NoInvocation(in, prints, try_end(TRUE, prints))
          ELSE IF IsEmpty(in) THEN NoInvocation(in, prints, [running |-> TRUE, ended_by |-> ""])
          ELSE Invocation(in, prints,
                   generate_response(context, gemini_service, semantic_service, keywords,
                                     intent_patterns, knowledge_base, Str(strip(in.toks)),
                                     DefaultEnv))

LoopSpec == LoopInit /\ [][ReadLine]_vars

\* ------------------- the summary, list and history functions on their own

\* lines of a description, products of a list, records of a history
MaxInfoLines == 3
MaxItems == 2
MaxHistory == 4

\* the values of a loan's "product information" field
Descriptions ==
    {EmptyInfo, NullInfo, NumberInfo}
    \cup {TextInfo(FALSE, lines, 0) :
             lines \in UNION {[1..n -> {"text", "empty", "bullet"}] : n \in 1..MaxInfoLines}}

\* the values of an items mapping: products with and without description and
\* link, and a value that is not a mapping
Items ==
    { [name |-> "Visa Gold", info |-> TextInfo(TRUE, <<"text", "bullet">>, 2), link |-> TRUE],
      [name |-> "Mastercard Standard", info |-> NullInfo, link |-> FALSE],
      [name |-> "Consumer Loan", info |-> NumberInfo, link |-> TRUE],
      [name |-> "Student Loan", info |-> NullInfo, link |-> FALSE, not_dict |-> TRUE] }

\* items mappings: the names are the keys, so they differ
ItemLists ==
    {items \in UNION {[1..n -> Items] : n \in 0..MaxItems} :
        \A i, j \in 1..Len(items) : i # j => items[i].name # items[j].name}

\* conversation histories, one record per turn as generate_response appends
Histories ==
    {[i \in 1..n |-> [user |-> <<"hello", ToString(i)>>, language |-> "en",
                      intent |-> "general", confidence |-> 0]] : n \in 0..MaxHistory}

UnitInit ==
    /\ context = [user_language |-> "en", conversation_history |-> << >>]
    /\ gemini_service = [is_available |-> FALSE, model |-> FALSE]
    /\ semantic_service = NewSemanticService
    /\ knowledge_base = KnowledgeBase
    /\ intent_patterns = DefaultIntentPatterns
    /\ keywords = DefaultKeywords
    /\ calls = 0
    /\ last = [called |-> FALSE, op |-> "none"]

\* get_loan_summary(loan_info)
GetLoanSummary ==
    \E info \in Descriptions :
        /\ ~last.called
        /\ last' = [called |-> TRUE, op |-> "get_loan_summary", info |-> info,
                    result |-> get_loan_summary([info |-> info])]
        /\ UNCHANGED <<context, gemini_service, semantic_service, knowledge_base,
                       intent_patterns, keywords, calls>>

\* render_product_list(header, items, summary_fn, link_label, language)
RenderProductList ==
    \E items \in ItemLists, lang \in {"en", "bg"},
       summary_fn \in {"get_credit_card_summary", "get_loan_summary", "unguarded"} :
        /\ ~last.called
        /\ last' = [called |-> TRUE, op |-> "render_product_list", items |-> items,
                    summary_fn |-> summary_fn, lang |-> lang,
                    result |-> render_product_list(Seg("brand_header", lang, "Visa"), items,
                                                   summary_fn, lang)]
        /\ UNCHANGED <<context, gemini_service, semantic_service, knowledge_base,
                       intent_patterns, keywords, calls>>

\* context.get_recent_context(turns) on a context with the given history
GetRecentContext ==
    \E history \in Histories, turns \in 0..(MaxHistory + 1) :
        /\ ~last.called
        /\ context' = [context EXCEPT !.conversation_history = history]
        /\ last' = [called |-> TRUE, op |-> "get_recent_context", turns |-> turns,
                    result |-> get_recent_context(history, turns)]
        /\ UNCHANGED <<gemini_service, semantic_service, knowledge_base, intent_patterns,
                       keywords, calls>>

UnitNext == GetLoanSummary \/ RenderProductList \/ GetRecentContext

UnitSpec == UnitInit /\ [][UnitNext]_vars

\* ------------------------------------------------------------ properties

Blank(u) == Falsy(u) \/ (u.type = "str" /\ strip(u.toks) = << >>)

TextTurn == last.called /\ NonBlank(last.input)

ChainTurn == TextTurn /\ last.out.handler = "chain"

EndsWith(response, seg) == response # << >> /\ response[Len(response)] = seg

GeneratorCalled == ChainTurn /\ last.out.ai.called

AllAttemptsFail == \A i \in 1..(MaxRetries + 1) : last.env.gen[i] \in {"raise", "empty"}

\* C1: generate_response is total: whatever the input and whatever the
\* collaborators do, the call returns a response string and no exception
\* leaves it.
C1_Total == last.called => (~last.out.raised /\ last.out.response # << >>)

\* an exception was raised inside the call (a non-text input fails at
\* .strip()) and the call answered the error response
C1_Witness ==
    /\ last.called /\ last.input = OtherObject /\ last.out.caught
    /\ last.out.response = generate_error_response(context.user_language)

\* C2 as stated: every response, for every input, ends with the *2265
\* contact footer in the turn's language.
C2_Original == last.called => EndsWith(last.out.response, Footer(context.user_language))

\* C2 amended: the response to a non-blank text input ends with the contact
\* footer in the language detected for that input, also when the handler or
\* the chain answered an error response; the blank-input prompt and the
\* catch-all error response carry no footer.
C2_FooterAfterDispatch ==
    /\ TextTurn =>
          EndsWith(last.out.response,
                   Seg("contact_footer_2265",
                       IF detect_language(last.input.toks, last.env.ld) = "bg"
                       THEN "bg" ELSE "en", ""))
    /\ (last.called /\ (Blank(last.input) \/ last.out.caught)) =>
          \A i \in 1..Len(last.out.response) :
              last.out.response[i].k # "contact_footer_2265"

\* a Bulgarian turn whose handler failed: error response, Bulgarian footer
C2_Witness ==
    /\ TextTurn /\ context.user_language = "bg"
    /\ last.out.response = Append(generate_error_response("bg"),
                                  Seg("contact_footer_2265", "bg", ""))

\* C3: a blank input (None, empty or whitespace-only) leaves the context as
\* it was, history and language, and uses neither the classifier, the
\* retriever nor the generator.
C3_BlankFrame ==
    [][(last'.called /\ Blank(last'.input)) =>
          /\ context' = context
          /\ semantic_service' = semantic_service
          /\ ~last'.out.classified
          /\ ~last'.out.ai.called
          /\ last'.out.retrievals = << >>]_vars

\* a whitespace-only input after a Bulgarian turn was recorded
C3_Witness ==
    /\ last.called /\ last.input = Str(<<SP>>)
    /\ Len(context.conversation_history) = 1 /\ context.user_language = "bg"
    /\ last.pre = context

\* C4 as stated: the blank-input prompt is given in the session's current
\* language, Bulgarian after a turn detected as Bulgarian, English otherwise.
C4_LocalizedPrompt ==
    (last.called /\ Blank(last.input)) =>
        last.out.response =
            <<Seg("please_enter_your_question", L(last.pre.user_language), "")>>

\* C5: a call with a non-blank text appends exactly one record holding the
\* input, the language detected for it and the intent and confidence of its
\* classification, whatever the handler or the chain then answers; any other
\* call leaves the history as it is, so the history grows in call order.
C5_HistoryAppend ==
    [][IF calls' = calls + 1 /\ NonBlank(last'.input)
       THEN /\ context'.conversation_history =
                   Append(context.conversation_history,
                          [user |-> last'.input.toks,
                           language |-> detect_language(last'.input.toks, last'.env.ld),
                           intent |-> find_intent(intent_patterns, last'.input.toks).intent,
                           confidence |->
                               find_intent(intent_patterns, last'.input.toks).confidence])
            /\ context'.user_language = detect_language(last'.input.toks, last'.env.ld)
       ELSE context'.conversation_history = context.conversation_history]_vars

\* the second text turn of a session ends in the loan handler's error
\* response, and the history holds both turns
C5_Witness ==
    /\ TextTurn /\ last.out.handler = "loans"
    /\ last.out.response = Append(generate_error_response(context.user_language),
                                  Footer(context.user_language))
    /\ Len(context.conversation_history) = 2
    /\ Len(last.pre.conversation_history) = 1

\* C6: a turn classified credit_cards is answered by the credit-card handler
\* and nothing else, a turn classified loans by the loan handler and nothing
\* else, and a turn of any other intent by the generation fallback chain.
C6_Dispatch ==
    TextTurn =>
        CASE find_intent(intent_patterns, last.input.toks).intent = "credit_cards" ->
                 /\ last.out.response =
                        Append(handle_credit_card_inquiry(keywords, knowledge_base,
                                   context.user_language, last.input.toks),
                               Footer(context.user_language))
                 /\ last.out.stage = "none" /\ ~last.out.ai.called
                 /\ last.out.retrievals = << >>
          [] find_intent(intent_patterns, last.input.toks).intent = "loans" ->
                 /\ last.out.response =
                        Append(handle_loan_inquiry(keywords, knowledge_base,
                                   context.user_language, last.input.toks),
                               Footer(context.user_language))
                 /\ last.out.stage = "none" /\ ~last.out.ai.called
                 /\ last.out.retrievals = << >>
          [] OTHER ->
                 /\ last.out.handler = "chain"
                 /\ last.out.stage \in {"ai", "fallback"}
                 /\ last.out.retrievals # << >>

\* a loans turn answered with the loan handler's text, which the credit-card
\* handler would not have given
C6_Witness ==
    /\ TextTurn /\ last.out.intent = "loans"
    /\ last.out.response = Append(handle_loan_inquiry(keywords, knowledge_base,
                                      context.user_language, last.input.toks),
                                  Footer(context.user_language))
    /\ last.out.response # Append(handle_credit_card_inquiry(keywords, knowledge_base,
                                      context.user_language, last.input.toks),
                                  Footer(context.user_language))

\* C7: one call of the generator wrapper invokes the generator at most
\* MaxRetries + 1 times, stops at the first attempt that returns a text, and
\* when every attempt raises or returns nothing makes exactly MaxRetries + 1
\* invocations and returns None.
C7_BoundedRetries ==
    GeneratorCalled =>
        /\ last.out.ai.calls \in 1..(MaxRetries + 1)
        /\ \A i \in 1..(last.out.ai.calls - 1) : last.env.gen[i] \in {"raise", "empty"}
        /\ AllAttemptsFail =>
               (last.out.ai.calls = MaxRetries + 1 /\ last.out.ai.value = PyNone)
        /\ ~AllAttemptsFail => last.env.gen[last.out.ai.calls] \in {"text", "blank"}

\* every attempt failed: three invocations, no text
C7_Witness ==
    /\ GeneratorCalled /\ last.env.gen = <<"raise", "empty", "raise">>
    /\ last.out.ai.calls = MaxRetries + 1 /\ last.out.ai.value = PyNone

\* C8 as stated: when some attempt returns a non-empty text, the turn's
\* response is the first such text in attempt order; failing, empty and
\* whitespace-only attempts before it are retried past.
C8_FirstNonEmptyText ==
    (GeneratorCalled /\ \E i \in 1..(MaxRetries + 1) : last.env.gen[i] = "text") =>
        /\ last.out.stage = "ai"
        /\ \E k \in 1..(MaxRetries + 1) :
              /\ last.env.gen[k] = "text"
              /\ \A i \in 1..(k - 1) : last.env.gen[i] # "text"
              /\ last.out.response = <<AiText(k), Footer(context.user_language)>>

\* C9: with the generator unavailable, or available with every attempt
\* failing, the chain runs the semantic-search fallback with top_k = 5, and
\* when the retriever returns nothing the response is the localized
\* "no relevant information" message.
C9_SemanticFallback ==
    (ChainTurn /\ (~gemini_service.is_available \/ (last.out.ai.called /\ AllAttemptsFail))) =>
        /\ last.out.stage = "fallback"
        /\ last.out.retrievals[Len(last.out.retrievals)] = FallbackTopK
        /\ Len(last.out.retrievals) = IF gemini_service.is_available THEN 2 ELSE 1
        /\ last.out.found = 0 =>
               last.out.response = <<Seg("no_relevant_info", L(context.user_language), ""),
                                     Footer(context.user_language)>>

\* every attempt of an available generator failed and the retriever found
\* nothing: the Bulgarian "no relevant information" message
C9_Witness ==
    /\ ChainTurn /\ last.out.ai.called /\ AllAttemptsFail /\ last.out.found = 0
    /\ last.out.retrievals = <<DefaultTopK, FallbackTopK>>
    /\ last.out.response = <<Seg("no_relevant_info", "bg", ""), Footer("bg")>>

\* C10 as stated: an unexpected error in either stage of the chain makes the
\* generic error response the chain's result.
C10_Original ==
    (ChainTurn /\ (last.out.ai_error \/ last.out.fallback_error)) =>
        last.out.response = Append(generate_error_response(context.user_language),
                                   Footer(context.user_language))

\* C10 amended: an error in the AI stage hands the turn to the
\* semantic-search fallback, whose result is the chain's result; only an
\* error in the semantic-fallback stage makes the generic error response the
\* chain's result.
C10_StageErrors ==
    ChainTurn =>
        /\ last.out.ai_error =>
               /\ last.out.stage = "fallback" /\ ~last.out.ai.called
               /\ last.out.retrievals = <<DefaultTopK, FallbackTopK>>
        /\ (last.out.ai_error /\ ~last.out.fallback_error) =>
               last.out.response[1].k \in {"no_relevant_info", "based_on_question"}
        /\ last.out.fallback_error =>
               last.out.response = Append(generate_error_response(context.user_language),
                                          Footer(context.user_language))

\* the prompt could not be built, and the fallback listed the products found
C10_Witness ==
    /\ ChainTurn /\ last.out.ai_error /\ ~last.out.fallback_error
    /\ last.out.found > 0 /\ last.out.response[1].k = "based_on_question"

FindCall == last.op = "find_similar_products"

\* the product the retriever's catalog holds under a key
CatalogProduct(kb, key) == kb.products[Lookup(kb.products, key)].product

\* C11: find_similar_products(query, top_k, threshold) returns at most top_k
\* results (top_k a count, 0 or more) and every returned score is strictly
\* greater than threshold.
C11_AtMostKAboveThreshold ==
    FindCall =>
        /\ Len(last.results) <= last.top_k
        /\ \A i \in 1..Len(last.results) : last.results[i].score > last.threshold

\* of three indexed products two are within top_k = 2 and only one of them
\* scores above the threshold: a single result
C11_Witness ==
    /\ FindCall /\ last.top_k = 2 /\ Len(last.results) = 1
    /\ Len(semantic_service.embeddings.vecs) = 3
    /\ Cardinality({k \in CatalogKeys(semantic_service.knowledge_base) :
                       last.sim[k] > last.threshold}) = 1

\* C12 as stated: of two consecutive results the earlier score is strictly
\* greater than the later, also for products of equal similarity.
C12_Original ==
    FindCall =>
        \A i \in 1..(Len(last.results) - 1) :
            last.results[i].score > last.results[i + 1].score

\* C12 amended: the results are in non-increasing order of score (each score
\* is greater than or equal to the next; products of equal similarity are
\* both returned, next to each other), and no indexed product left out
\* scores higher than a returned one.
C12_NonIncreasing ==
    FindCall =>
        /\ \A i \in 1..(Len(last.results) - 1) :
              last.results[i].score >= last.results[i + 1].score
        /\ \A i \in 1..Len(last.results) :
              \A k \in CatalogKeys(semantic_service.knowledge_base) :
                  (\A j \in 1..Len(last.results) : last.results[j].key # k) =>
                      last.sim[k] <= last.results[i].score

\* three results, the first scoring higher than the other two, which tie
C12_Witness ==
    /\ FindCall /\ Len(last.results) = 3
    /\ last.results[1].score > last.results[2].score
    /\ last.results[2].score = last.results[3].score

\* C13: find_similar_products returns the empty list when no catalog was
\* set, when the catalog has no products, and when the model fails to load,
\* the corpus encoding fails or the query encoding fails.
C13_EmptyOnFailure ==
    [][(last'.op = "find_similar_products"
        /\ (\/ ~semantic_service.kb_set
            \/ semantic_service.knowledge_base.products = << >>
            \/ last'.enc \in {"load_fail", "corpus_fail", "query_fail"}))
       => last'.results = << >>]_vars

\* the index is built, a product scores above the threshold, and the query
\* encoding fails: the empty list
C13_Witness ==
    /\ FindCall /\ last.enc = "query_fail" /\ last.results = << >>
    /\ semantic_service.embeddings.built /\ last.top_k > 0
    /\ \E k \in CatalogKeys(semantic_service.knowledge_base) : last.sim[k] > last.threshold

\* C14 as stated: in every reachable state of the retriever the number of
\* stored product keys equals the number of cached embedding vectors.
C14_KeysMatchVectors ==
    Len(semantic_service.product_keys) = Len(semantic_service.embeddings.vecs)

\* C15: set_knowledge_base clears the cached vectors, texts and keys; the
\* index a later find_similar_products builds holds the new catalog's
\* products, and every result carries a key of the new catalog with the new
\* catalog's product under that key.
C15_ReplacementInvalidates ==
    /\ last.op = "set_knowledge_base" =>
          /\ ~semantic_service.embeddings.built
          /\ semantic_service.embeddings.vecs = << >>
          /\ semantic_service.product_texts = << >>
          /\ semantic_service.product_keys = << >>
    /\ semantic_service.embeddings.built =>
          semantic_service.embeddings.vecs =
              [i \in 1..Len(semantic_service.knowledge_base.products) |->
                  semantic_service.knowledge_base.products[i].key]
    /\ FindCall =>
          \A i \in 1..Len(last.results) :
              /\ last.results[i].key \in CatalogKeys(semantic_service.knowledge_base)
              /\ last.results[i].product =
                     CatalogProduct(semantic_service.knowledge_base, last.results[i].key)

\* the first catalog's index was dropped by a replacement, and the call
\* after it returns the second catalog's product under a key both hold
C15_Witness ==
    /\ FindCall /\ Len(last.dropped) = 3 /\ last.encodings = 1
    /\ semantic_service.knowledge_base = OtherCatalog
    /\ \E i \in 1..Len(last.results) :
          /\ last.results[i].key = "Visa Gold"
          /\ last.results[i].product = CatalogProduct(OtherCatalog, "Visa Gold")
          /\ last.results[i].product # CatalogProduct(KnowledgeBase, "Visa Gold")

\* C16: the corpus is not encoded when the catalog is set but by a
\* find_similar_products call, and once an index is built every later call
\* encodes no corpus and leaves the index as it is until the catalog is
\* replaced.
C16_LazyMemoized ==
    [][/\ last'.op = "set_knowledge_base" =>
             (~semantic_service'.embeddings.built /\ last'.encodings = 0)
       /\ (last'.op = "find_similar_products" /\ semantic_service.embeddings.built) =>
             /\ last'.encodings = 0
             /\ semantic_service'.embeddings = semantic_service.embeddings
       /\ (last'.op = "find_similar_products" /\ ~semantic_service.embeddings.built
           /\ semantic_service'.embeddings.built) => last'.encodings = 1]_vars

\* a call answered from the cached index: results, and no corpus encoding
C16_Witness ==
    /\ FindCall /\ last.encodings = 0 /\ last.results # << >>
    /\ semantic_service.embeddings.built

\* words spelled with Cyrillic letters, of the Bulgarian alphabet or not
CyrillicWords == BulgarianLetterWords \cup {"cyr_yery"}

\* C17 as stated: an input holding at least one Cyrillic letter is detected
\* as "bg", also when the letter is not of the Bulgarian alphabet and
\* whatever the statistical detector reports.
C17_CyrillicIsBulgarian ==
    (TextTurn /\ \E i \in 1..Len(last.input.toks) : last.input.toks[i] \in CyrillicWords) =>
        /\ context.user_language = "bg"
        /\ context.conversation_history[Len(context.conversation_history)].language = "bg"

\* the categories of the configuration, by position, with a pattern that
\* matches the lower-cased text
Matching(toks) ==
    {i \in 1..Len(intent_patterns) :
        \E j \in 1..Len(intent_patterns[i].patterns) :
            \E phrase \in intent_patterns[i].patterns[j] : Contains(lower(toks), phrase)}

\* C18: find_intent answers ("general", 0.0) for a text that matches no
\* pattern, and otherwise (c, 0.8) with c the first category in configuration
\* order that has a matching pattern; a later matching category does not
\* replace it.
C18_FirstMatchWins ==
    TextTurn =>
        IF Matching(last.input.toks) = {}
        THEN last.out.intent = "general" /\ last.out.confidence = 0
        ELSE /\ last.out.confidence = 8
             /\ \E i \in Matching(last.input.toks) :
                   /\ \A k \in Matching(last.input.toks) : i <= k
                   /\ last.out.intent = intent_patterns[i].intent

\* a text that matches credit_cards and loans is classified credit_cards
C18_Witness ==
    /\ TextTurn /\ Cardinality(Matching(last.input.toks)) = 2
    /\ last.out.intent = "credit_cards" /\ last.out.confidence = 8
    /\ \E i \in Matching(last.input.toks) : intent_patterns[i].intent = "loans"

\* the entries of both datasets by position: dataset (1 cards, 2 credits),
\* group, place in the group; the merge iterates them in this order
MergePositions ==
    {<<1, g, i>> : g \in 1..Len(knowledge_base.credit_cards), i \in 1..MaxGroupSize + 1}
    \cup {<<2, g, i>> : g \in 1..Len(knowledge_base.credits), i \in 1..MaxGroupSize + 1}

MergeGroup(p) ==
    IF p[1] = 1 THEN knowledge_base.credit_cards[p[2]].cards
    ELSE knowledge_base.credits[p[2]].credits

MergeEntries == {p \in MergePositions : p[3] <= Len(MergeGroup(p))}

EntryKey(p) == NormalizeName(MergeGroup(p)[p[3]].name)

EntryProduct(p) ==
    [name |-> MergeGroup(p)[p[3]].name,
     type |-> IF p[1] = 1 THEN "credit_card" ELSE "credit",
     category |-> IF p[1] = 1 THEN knowledge_base.credit_cards[p[2]].brand
                  ELSE knowledge_base.credits[p[2]].category,
     description |-> MergeGroup(p)[p[3]].info]

IteratedBefore(p, q) ==
    \/ p[1] < q[1]
    \/ p[1] = q[1] /\ p[2] < q[2]
    \/ p[1] = q[1] /\ p[2] = q[2] /\ p[3] < q[3]

\* C19: the merged catalog has exactly one entry per distinct normalized
\* name, and it is the entry iterated last under that name (cards in file
\* order, then credits), with that entry's one kind and one category: a
\* credit replaces a card of the same normalized name.
C19_LastWriteWins ==
    last.op = "setup_knowledge_base" =>
        /\ \A i, j \in 1..Len(knowledge_base.products) :
              knowledge_base.products[i].key = knowledge_base.products[j].key => i = j
        /\ {knowledge_base.products[i].key : i \in 1..Len(knowledge_base.products)}
              = {EntryKey(p) : p \in MergeEntries}
        /\ \A i \in 1..Len(knowledge_base.products) :
              \E p \in MergeEntries :
                  /\ EntryKey(p) = knowledge_base.products[i].key
                  /\ \A q \in MergeEntries :
                        EntryKey(q) = EntryKey(p) => (q = p \/ IteratedBefore(q, p))
                  /\ knowledge_base.products[i].product = EntryProduct(p)

\* a card and two credits normalize to "Smart Loan": one entry, the credit
\* iterated last
C19_Witness ==
    /\ last.op = "setup_knowledge_base"
    /\ Cardinality({p \in MergeEntries : EntryKey(p) = "Smart Loan"}) = 3
    /\ \E p \in MergeEntries : p[1] = 1 /\ EntryKey(p) = "Smart Loan"
    /\ Len(knowledge_base.credits[1].credits) = 2
    /\ \E i \in 1..Len(knowledge_base.products) :
          /\ knowledge_base.products[i].key = "Smart Loan"
          /\ knowledge_base.products[i].product.type = "credit"
          /\ knowledge_base.products[i].product.name =
                 knowledge_base.credits[1].credits[2].name

\* the variants of a brand, by position in the configuration, one of whose
\* keywords occurs in the lower-cased text
VariantsNamed(groups, toks) ==
    {i \in 1..Len(groups) :
        \E j \in 1..Len(groups[i].keywords) :
            Contains(lower(toks), lower(groups[i].keywords[j].toks))}

FirstVariant(groups, toks) ==
    groups[CHOOSE i \in VariantsNamed(groups, toks) :
               \A k \in VariantsNamed(groups, toks) : i <= k].type

BrandNamed(brand_keywords, toks) ==
    \E j \in 1..Len(brand_keywords) : Contains(lower(toks), lower(brand_keywords[j].toks))

\* C20: the credit-card handler answers with the specific-card view of the
\* first Visa variant one of whose keywords the text holds; with no Visa
\* variant, of the first such Mastercard variant; with no variant at all it
\* consults the brand keywords: exactly one brand mentioned gives that
\* brand's list, both or neither the whole card catalog.
C20_CardDecisionOrder ==
    last.op = "handle_credit_card_inquiry" =>
        last.response =
            IF VariantsNamed(keywords.visa, last.toks) # {}
            THEN show_specific_card(knowledge_base, context.user_language, "Visa",
                     CardName("Visa", FirstVariant(keywords.visa, last.toks)))
            ELSE IF VariantsNamed(keywords.mastercard, last.toks) # {}
            THEN show_specific_card(knowledge_base, context.user_language, "Mastercard",
                     CardName("Mastercard", FirstVariant(keywords.mastercard, last.toks)))
            ELSE IF BrandNamed(keywords.brands.visa, last.toks)
                    /\ ~BrandNamed(keywords.brands.mastercard, last.toks)
            THEN show_brand_cards(knowledge_base, context.user_language, "Visa")
            ELSE IF BrandNamed(keywords.brands.mastercard, last.toks)
                    /\ ~BrandNamed(keywords.brands.visa, last.toks)
            THEN show_brand_cards(knowledge_base, context.user_language, "Mastercard")
            ELSE show_all_credit_cards(knowledge_base, context.user_language)

\* the text names a Mastercard variant and a Visa variant: the answer is the
\* Visa variant's view, not the Mastercard variant's
C20_Witness ==
    /\ last.op = "handle_credit_card_inquiry"
    /\ VariantsNamed(keywords.mastercard, last.toks) # {}
    /\ VariantsNamed(keywords.visa, last.toks) # {}
    /\ last.response = show_specific_card(knowledge_base, context.user_language,
                                          "Visa", "Visa Gold")
    /\ last.response # show_specific_card(knowledge_base, context.user_language,
                           "Mastercard",
                           CardName("Mastercard",
                                    FirstVariant(keywords.mastercard, last.toks)))

\* the scan of a keyword group reaches a keyword that is not a string before
\* one that occurs in the text
KeywordFails(groups, toks) ==
    \E i \in 1..Len(groups) : \E j \in 1..Len(groups[i].keywords) :
        /\ groups[i].keywords[j].type # "str"
        /\ \A k \in 1..(j - 1) :
              /\ groups[i].keywords[k].type = "str"
              /\ ~Contains(lower(toks), lower(groups[i].keywords[k].toks))

\* the loan types, by position, with a string keyword that occurs in the text
TypesNamed(groups, toks) ==
    {i \in 1..Len(groups) :
        \E j \in 1..Len(groups[i].keywords) :
            /\ groups[i].keywords[j].type = "str"
            /\ Contains(lower(toks), lower(groups[i].keywords[j].toks))}

TheType(groups, toks) == groups[CHOOSE i \in TypesNamed(groups, toks) : TRUE].type

MappedTypes == {"housing", "consumer", "overdraft", "other"}

\* C21 as stated: exactly one loan type mentioned shows that type's
\* category, zero or several show the overview of all categories, for every
\* keyword configuration
C21_Original ==
    last.op = "handle_loan_inquiry" =>
        last.response =
            IF Cardinality(TypesNamed(keywords.loans, last.toks)) = 1
            THEN show_loan_category(knowledge_base, context.user_language,
                     category_mapping(TheType(keywords.loans, last.toks)))
            ELSE show_all_loan_categories(knowledge_base, context.user_language)

\* C21: the loan handler shows a category when exactly one loan type is
\* mentioned and that type is one of housing, consumer, overdraft, other;
\* a mentioned type outside these four, no type and several types all show
\* the overview of all categories; a scan that meets a keyword that is not
\* a string gives the error response.
C21_OneMappedType ==
    last.op = "handle_loan_inquiry" =>
        last.response =
            IF KeywordFails(keywords.loans, last.toks)
            THEN generate_error_response(context.user_language)
            ELSE IF Cardinality(TypesNamed(keywords.loans, last.toks)) = 1
                    /\ TheType(keywords.loans, last.toks) \in MappedTypes
            THEN show_loan_category(knowledge_base, context.user_language,
                     category_mapping(TheType(keywords.loans, last.toks)))
            ELSE show_all_loan_categories(knowledge_base, context.user_language)

\* one loan type is mentioned, the configuration's own "student", and the
\* answer is the overview
C21_Witness ==
    /\ last.op = "handle_loan_inquiry"
    /\ ~KeywordFails(keywords.loans, last.toks)
    /\ Cardinality(TypesNamed(keywords.loans, last.toks)) = 1
    /\ TheType(keywords.loans, last.toks) = "student"
    /\ last.response = show_all_loan_categories(knowledge_base, context.user_language)

\* C22: a turn classified credit_cards or loans makes no retrieval and no
\* generator call and leaves the retriever as it was (no embedding build),
\* whether or not the generator is available; the keyword configuration
\* and the catalog are the same after the turn as before it.
C22_HandlersAreLookups ==
    [][ (last'.called /\ last'.out.classified
         /\ last'.out.intent \in {"credit_cards", "loans"})
        => /\ last'.out.retrievals = << >>
           /\ ~last'.out.ai.called
           /\ last'.out.ai.calls = 0
           /\ semantic_service' = semantic_service
           /\ keywords' = keywords
           /\ knowledge_base' = knowledge_base ]_vars

\* a loans turn of a session whose generator is available, after which the
\* corpus embeddings are still not built
C22_Witness ==
    /\ last.called
    /\ last.out.classified
    /\ last.out.intent = "loans"
    /\ last.out.handler = "loans"
    /\ gemini_service.is_available
    /\ ~semantic_service.embeddings.built
    /\ last.out.retrievals = << >>

\* C23: a line that equals an exit command ends the loop without a call of
\* generate_response, with the history and the language as they were; an
\* empty line neither ends the loop nor calls generate_response.
C23_ExitWithoutTurn ==
    (last.op = "start_conversation" /\ last.in.kind = "line")
    => /\ lower(strip(last.in.toks)) \in exit_commands
          => (~last.running /\ ~last.invoked /\ context = last.pre)
       /\ strip(last.in.toks) = << >>
          => (last.running /\ ~last.invoked /\ context = last.pre)

\* C24: the loop ends only by an exit command, the end of input or a
\* keyboard interrupt; an iteration whose turn ends in an error goes on to
\* read the next line.
C24_EndsOnlyOnExit ==
    (last.op = "start_conversation" /\ ~last.running)
    => \/ last.in.kind \in {"eof", "interrupt"}
       \/ lower(strip(last.in.toks)) \in exit_commands

\* the numbers of the lines of a description that are not empty and do not
\* start with the bullet marker
Qualifying(lines) == SelectSeq([i \in 1..Len(lines) |-> i], LAMBDA i : lines[i] = "text")

\* C25 as stated: get_loan_summary returns the first two lines of the
\* description that are non-empty and do not start with a bullet marker,
\* wherever in the description they stand
C25_Original ==
    (last.op = "get_loan_summary" /\ last.info.type = "str" /\ ~last.info.empty)
    => last.result = Take(Qualifying(last.info.lines), 2)

\* C25: get_loan_summary looks at the first two lines of the description
\* only and returns those of the two that are non-empty and do not start
\* with a bullet marker; a description that is missing, empty or not a
\* string gives the empty summary.
C25_FirstTwoLines ==
    last.op = "get_loan_summary" =>
        last.result =
            IF last.info.type = "str" /\ ~last.info.empty
            THEN Qualifying(Take(last.info.lines, 2))
            ELSE << >>

\* the first line is empty and the second and third qualify: the summary is
\* the second line alone
C25_Witness ==
    /\ last.op = "get_loan_summary"
    /\ last.info.type = "str"
    /\ last.info.lines = <<"empty", "text", "text">>
    /\ last.result = <<2>>

\* the items of a list as render_product_list shows them when the summary
\* function raises on none or some of them: name, the summary if there is
\* one, the link if there is one
RECURSIVE Listed(_, _, _)
Listed(items, summary_fn, lang) ==
    IF items = << >> THEN << >>
    ELSE <<Seg("item", "", Head(items).name)>>
         \o (IF (summary_fn = "unguarded" /\ Head(items).info.type # "str")
                 \/ summary_of(summary_fn, Head(items)) = << >>
             THEN << >>
             ELSE <<Seg("summary", "", ToString(summary_of(summary_fn, Head(items))))>>)
         \o (IF Head(items).link THEN <<Seg("link", lang, Head(items).name)>> ELSE << >>)
         \o Listed(Tail(items), summary_fn, lang)

\* C26: render_product_list always returns a string: for an empty mapping
\* the header and the "no products" notice; for a mapping of products the
\* header, every item in order with its name and link, and the closing tip,
\* an item on which the summary function raises being listed without a
\* summary; for a mapping with a value that is not a mapping, the renderer's
\* error message.
C26_ListAlwaysRendered ==
    last.op = "render_product_list" =>
        last.result =
            IF last.items = << >>
            THEN <<Seg("brand_header", last.lang, "Visa"), Seg("no_products", last.lang, "")>>
            ELSE IF \E i \in 1..Len(last.items) : "not_dict" \in DOMAIN last.items[i]
            THEN <<Seg("render_list_error", last.lang, "")>>
            ELSE <<Seg("brand_header", last.lang, "Visa")>>
                 \o Listed(last.items, last.summary_fn, last.lang)
                 \o <<Seg("product_tip", last.lang, "")>>

\* the summary function raises on the first of two products and not on the
\* second: both are listed, the first with its link and no summary, the
\* second with its summary
C26_Witness ==
    /\ last.op = "render_product_list"
    /\ last.summary_fn = "unguarded"
    /\ Len(last.items) = 2
    /\ last.items[1].name = "Consumer Loan"
    /\ last.items[2].name = "Visa Gold"
    /\ last.result = <<Seg("brand_header", last.lang, "Visa"),
                       Seg("item", "", "Consumer Loan"), Seg("link", last.lang, "Consumer Loan"),
                       Seg("item", "", "Visa Gold"), Seg("summary", "", ToString(<<1>>)),
                       Seg("link", last.lang, "Visa Gold"),
                       Seg("product_tip", last.lang, "")>>

\* C30: get_recent_context(n) returns the last min(n, len(history)) records
\* of the history in order, for every n >= 0.
C30_LastMinRecords ==
    last.op = "get_recent_context" =>
        LET h == context.conversation_history
            m == IF last.turns < Len(h) THEN last.turns ELSE Len(h)
        IN  last.result = SubSeq(h, Len(h) - m + 1, Len(h))

\* the indexed product keys in the order of np.argsort(similarities)[::-1]
RankedKeys ==
    LET vecs == semantic_service.embeddings.vecs
        order == ArgsortReversed([i \in 1..Len(vecs) |-> last.sim[vecs[i]]])
    IN  [p \in 1..Len(vecs) |-> vecs[order[p]]]

AboveThreshold(key) == last.sim[key] > last.threshold

\* C27: the keys find_similar_products returns, which it selects by taking
\* the top_k of the candidates sorted by descending similarity and then
\* dropping the scores not above the threshold, are the keys obtained by
\* dropping those scores first and taking the top_k afterwards.
C27_SelectionOrderIrrelevant ==
    (FindCall /\ last.enc = "ok" /\ semantic_service.embeddings.built)
    => /\ [i \in 1..Len(last.results) |-> last.results[i].key] =
              Take(SelectSeq(RankedKeys, AboveThreshold), last.top_k)
       /\ \A i \in 1..Len(last.results) :
              last.results[i].score = last.sim[last.results[i].key]

\* three indexed products all score above the threshold and top_k is 1:
\* the filter keeps three, the cut keeps the best of them
C27_Witness ==
    /\ FindCall /\ last.enc = "ok" /\ last.top_k = 1
    /\ Len(semantic_service.embeddings.vecs) = 3
    /\ \A k \in CatalogKeys(semantic_service.knowledge_base) : last.sim[k] > last.threshold
    /\ Len(last.results) = 1
    /\ \E k \in CatalogKeys(semantic_service.knowledge_base) :
          last.sim[k] < last.results[1].score

\* the keys of a catalog's products, in the catalog's order
CatalogKeySeq(kb) == [i \in 1..Len(kb.products) |-> kb.products[i].key]

C29_AvailabilityConsistent ==
    /\ gemini_service.is_available => gemini_service.model
    /\ (\/ ~gemini_service.library
        \/ gemini_service.api_key \in {"none", "", "your_gemini_api_key_here"}
        \/ gemini_service.setup # "ok") => ~gemini_service.is_available
    /\ (last.called /\ ~gemini_service.is_available)
          => (~last.out.ai.called /\ last.out.ai.calls = 0)

\* the second turn of a session whose key was rejected when the library was
\* configured goes through the generation chain and is answered by the
\* semantic fallback, with no generator call
C29_Witness ==
    /\ calls = 2 /\ last.called /\ last.out.handler = "chain"
    /\ gemini_service.library /\ gemini_service.api_key = "key"
    /\ gemini_service.setup = "configure_raises"
    /\ ~gemini_service.is_available
    /\ last.out.stage = "fallback"
    /\ ~last.out.ai.called

====
